---------------------------- MODULE Spec2Model ----------------------------
(***************************************************************************)
(* A model of the chatdb SDK query pipeline (packages/chatdb-sdk).         *)
(*                                                                         *)
(* Text is modelled character by character: a string of the program is a  *)
(* sequence of one-character strings, "SELECT 1" being                     *)
(* <<"S","E","L","E","C","T"," ","1">>.  Positions are 1-based here and    *)
(* 0-based in the source; every operator says which it returns.            *)
(***************************************************************************)
EXTENDS Integers, Sequences, FiniteSets, TLC

VARIABLES
    \* --- guard harness (validateSQL / ensureLimit applied to an input) ---
    gSql,        \* the SQL text handed to the guard
    gAllow,      \* options.allowWrites: "unset", "false" or "true"
    gMax,        \* maxRows handed to ensureLimit
    gRes,        \* Some(validateSQL(gSql, ...)), or Nothing
    gLim,        \* Some(ensureLimit(gSql, gMax)), or Nothing
    gLim2,       \* Some(ensureLimit(gLim, gMax)), or Nothing
    \* --- one query() call from the provider response on (chatdb.ts 93-129) ---
    qCfg,        \* this.config: [allowWrites, maxRows]
    qSchema,     \* the schema name of the call
    qContent,    \* result.content, the provider response
    qPc,         \* position of the call in query()
    qSql,        \* parsed.sql
    qErr,        \* the error the call threw, or Nothing
    qExecuted,   \* the SQL texts passed to db.execute, in order
    qResult,     \* the result the call returned, or Nothing
    \* --- token harness (estimateTokens / truncateSchema applied to an input) ---
    tText,       \* the schema text handed to truncateSchema
    tMax,        \* maxTokens handed to truncateSchema
    tOut,        \* Some(truncateSchema(tText, tMax)), or Nothing
    tTok,        \* Some(estimateTokens(tText)), or Nothing
    \* --- budget harness (buildMessages applied to the inputs of one call) ---
    bDialect,    \* this.db.dialect
    bSchemaName, \* the schema name of the call
    bSchema,     \* the schema text returned by getCachedSchema
    bHistory,    \* options.history: messages [role, content, data]
    bMessage,    \* the question
    bMaxTokens,  \* the context length reported by the provider
    bOut,        \* Some(buildMessages(...)), or Nothing
    \* --- one ChatDB instance serving concurrent query() calls ---
    cNow,        \* Date.now()
    cCache,      \* this.schemaCache: schema name -> Some([text, time]) or Nothing
    cFetches,    \* schema name -> number of db.getSchemaText calls made
    cDb,         \* which of its two schemas the database holds, 0 or 1
    cOverlap,    \* a call looked a name up while another was fetching it
    cRefreshed,  \* "no" refreshSchema() yet; after one: "pending" until the next
                 \* lookup, then "hit" or "miss" as that lookup went
    cCalls,      \* query() call -> its position and what it saw
    \* --- lazy initialization of one ChatDB instance ---
    iInitialized,\* this.initialized
    iPromise,    \* this.initPromise: "null", "pending", "fulfilled" or "rejected"
    iDb,         \* this.db is set
    iLlm,        \* this.llm is set
    iBody,       \* where the body of the init promise stands
    iDbCalls,    \* number of resolveDatabaseAdapter calls
    iLlmCalls,   \* number of resolveLLMProvider calls
    iCallers,    \* public call -> [op, pc, err, late]
    iError,      \* what the init promise was rejected with, "none" before
    iCloses,     \* number of close() calls
    iDbCloses,   \* number of this.db.close() calls
    \* --- ask() / query() calls on one instance and its conversation history ---
    aThis,       \* this.history: the array it refers to
    aArrays,     \* array -> its content; array 0 is a history owned by a caller
    aCalls,      \* call -> [kind, pc, ref, messages, stage, kept]
    aAfterClear, \* 0: no clearHistory() yet; after one: -1 until the next
                 \* ask() is called, then that call
    \* --- one call of resolveDatabaseAdapter ---
    rConfig,     \* the config argument: [isObject, url, dialect, poolSize]
    rTimeout,    \* the timeout argument, 0 when omitted
    rPc,         \* "idle", "called", "detected", "resolved", "failed"
    rDialect,    \* the local dialect
    rAdapter,    \* the adapter constructed, or Nothing
    rErr,        \* the error thrown, or Nothing
    \* --- one call of resolveLLMProvider ---
    lConfig,     \* the config argument: [isObject, text, provider, apiKey, url]
    lPc,         \* "idle", "called", "selected", "resolved", "failed"
    lClass,      \* the provider class selected, "" before
    lArg,        \* the config handed to the constructor: [apiKey, url]
    lProvider,   \* the provider constructed, or Nothing
    lErr,        \* the error thrown, or Nothing
    \* --- the steps of one query() call ---
    pOptions,    \* the options argument: [schema, history]
    pCached,     \* the schema cache's entry for the schema: [text, time] or Nothing
    pNow,        \* Date.now()
    pLocals,     \* the locals of the call: [now, schemaText, messages, parsed, safeSql]
    pPc,         \* what the call awaits, or "called" / "returned" / "failed"
    pLog,        \* the steps invoked so far, in order
    pErr,        \* the error the call threw, or Nothing
    pResult,     \* the result the call returned, or Nothing
    \* --- execute calls on one MySQLAdapter whose pool is open ---
    mConns,      \* pooled connection -> the database its session has selected
    mCalls,      \* call -> [pc, schema, under, err]
    \* --- calls on one PostgresAdapter ---
    xPool,       \* this.pool: 0 for null, else the pool it refers to
    xPools,      \* the pools constructed, in order: [ends], the calls of end()
    xCalls,      \* call -> [op, pc, pool, acquired, released, err]
    \* --- calls on one OpenAICompatibleProvider ---
    oContext,    \* cachedContextLength, -1 for null
    oModel,      \* cachedModelId, Nothing for null
    oListings,   \* the requests sent to /v1/models
    oCalls       \* call -> [op, pc, context, model, err]

guardVars == <<gSql, gAllow, gMax, gRes, gLim, gLim2>>
queryVars == <<qCfg, qSchema, qContent, qPc, qSql, qErr, qExecuted, qResult>>
tokenVars == <<tText, tMax, tOut, tTok>>
budgetVars == <<bDialect, bSchemaName, bSchema, bHistory, bMessage, bMaxTokens, bOut>>
cacheVars == <<cNow, cCache, cFetches, cDb, cOverlap, cRefreshed, cCalls>>
initVars == <<iInitialized, iPromise, iDb, iLlm, iBody, iDbCalls, iLlmCalls, iCallers,
              iError, iCloses, iDbCloses>>
askVars == <<aThis, aArrays, aCalls, aAfterClear>>
resolveVars == <<rConfig, rTimeout, rPc, rDialect, rAdapter, rErr>>
llmVars == <<lConfig, lPc, lClass, lArg, lProvider, lErr>>
pipeVars == <<pOptions, pCached, pNow, pLocals, pPc, pLog, pErr, pResult>>
mysqlVars == <<mConns, mCalls>>
pgVars == <<xPool, xPools, xCalls>>
infoVars == <<oContext, oModel, oListings, oCalls>>
vars == <<guardVars, queryVars, tokenVars, budgetVars, cacheVars, initVars, askVars,
          resolveVars, llmVars, pipeVars, mysqlVars, pgVars, infoVars>>

\* the variables outside each part
outsideGuard == <<queryVars, tokenVars, budgetVars, cacheVars, initVars, askVars,
                  resolveVars, llmVars, pipeVars, mysqlVars, pgVars, infoVars>>
outsideQuery == <<guardVars, tokenVars, budgetVars, cacheVars, initVars, askVars,
                  resolveVars, llmVars, pipeVars, mysqlVars, pgVars, infoVars>>
outsideTokens == <<guardVars, queryVars, budgetVars, cacheVars, initVars, askVars,
                  resolveVars, llmVars, pipeVars, mysqlVars, pgVars, infoVars>>
outsideBudget == <<guardVars, queryVars, tokenVars, cacheVars, initVars, askVars,
                  resolveVars, llmVars, pipeVars, mysqlVars, pgVars, infoVars>>
outsideCache == <<guardVars, queryVars, tokenVars, budgetVars, initVars, askVars,
                  resolveVars, llmVars, pipeVars, mysqlVars, pgVars, infoVars>>
outsideInit == <<guardVars, queryVars, tokenVars, budgetVars, cacheVars, askVars,
                  resolveVars, llmVars, pipeVars, mysqlVars, pgVars, infoVars>>
outsideAsk == <<guardVars, queryVars, tokenVars, budgetVars, cacheVars, initVars,
                  resolveVars, llmVars, pipeVars, mysqlVars, pgVars, infoVars>>
outsideResolve == <<guardVars, queryVars, tokenVars, budgetVars, cacheVars, initVars,
                  askVars, llmVars, pipeVars, mysqlVars, pgVars, infoVars>>
outsideLlm == <<guardVars, queryVars, tokenVars, budgetVars, cacheVars, initVars, askVars,
                  resolveVars, pipeVars, mysqlVars, pgVars, infoVars>>
outsidePipe == <<guardVars, queryVars, tokenVars, budgetVars, cacheVars, initVars, askVars,
                  resolveVars, llmVars, mysqlVars, pgVars, infoVars>>
outsideMysql == <<guardVars, queryVars, tokenVars, budgetVars, cacheVars, initVars, askVars,
                  resolveVars, llmVars, pipeVars, pgVars, infoVars>>
outsidePg == <<guardVars, queryVars, tokenVars, budgetVars, cacheVars, initVars, askVars,
                  resolveVars, llmVars, pipeVars, mysqlVars, infoVars>>
outsideInfo == <<guardVars, queryVars, tokenVars, budgetVars, cacheVars, initVars, askVars,
                  resolveVars, llmVars, pipeVars, mysqlVars, pgVars>>

\* an optional value: Nothing, or Some(x) whose value is Val(Some(x))
Nothing == <<>>
Some(x) == <<x>>
Val(o)  == o[1]

(***************************************************************************)
(* Each specification below runs one part of the program; the variables of *)
(* the other parts rest at these values meanwhile.                         *)
(***************************************************************************)
GuardIdle ==
    /\ gSql = <<>> /\ gAllow = "unset" /\ gMax = 0
    /\ gRes = Nothing /\ gLim = Nothing /\ gLim2 = Nothing

QueryIdle ==
    /\ qCfg = [allowWrites |-> "false", maxRows |-> 0]
    /\ qSchema = <<>> /\ qContent = <<>>
    /\ qPc = "idle" /\ qSql = <<>> /\ qErr = Nothing /\ qExecuted = <<>>
    /\ qResult = Nothing

TokenIdle == tText = <<>> /\ tMax = 0 /\ tOut = Nothing /\ tTok = Nothing

BudgetIdle ==
    /\ bDialect = "postgresql" /\ bSchemaName = <<>> /\ bSchema = <<>>
    /\ bHistory = <<>> /\ bMessage = <<>> /\ bMaxTokens = 0 /\ bOut = Nothing

CacheIdle ==
    /\ cNow = 0 /\ cCache = <<>> /\ cFetches = <<>> /\ cDb = 0
    /\ cOverlap = FALSE /\ cRefreshed = "no" /\ cCalls = <<>>

InitIdle ==
    /\ iInitialized = FALSE /\ iPromise = "null" /\ iDb = FALSE /\ iLlm = FALSE
    /\ iBody = "none" /\ iDbCalls = 0 /\ iLlmCalls = 0 /\ iCallers = <<>>
    /\ iError = "none" /\ iCloses = 0 /\ iDbCloses = 0

AskIdle == aThis = 0 /\ aArrays = <<>> /\ aCalls = <<>> /\ aAfterClear = 0

ResolveIdle ==
    /\ rConfig = <<>> /\ rTimeout = 0 /\ rPc = "idle" /\ rDialect = ""
    /\ rAdapter = Nothing /\ rErr = Nothing

LlmIdle ==
    /\ lConfig = <<>> /\ lPc = "idle" /\ lClass = "" /\ lArg = <<>>
    /\ lProvider = Nothing /\ lErr = Nothing

PipeIdle ==
    /\ pOptions = <<>> /\ pCached = Nothing /\ pNow = 0 /\ pLocals = <<>>
    /\ pPc = "idle" /\ pLog = <<>> /\ pErr = Nothing /\ pResult = Nothing

MysqlIdle ==
    /\ mConns = <<>> /\ mCalls = <<>>

PgIdle ==
    /\ xPool = 0 /\ xPools = <<>> /\ xCalls = <<>>

InfoIdle ==
    /\ oContext = -1 /\ oModel = Nothing /\ oListings = 0 /\ oCalls = <<>>

\* every part but the named one is at rest
OthersIdle(part) ==
    /\ part = "guard"  \/ GuardIdle
    /\ part = "query"  \/ QueryIdle
    /\ part = "tokens" \/ TokenIdle
    /\ part = "budget" \/ BudgetIdle
    /\ part = "cache"  \/ CacheIdle
    /\ part = "init"   \/ InitIdle
    /\ part = "ask"    \/ AskIdle
    /\ part = "resolve" \/ ResolveIdle
    /\ part = "llm" \/ LlmIdle
    /\ part = "pipe" \/ PipeIdle
    /\ part = "mysql" \/ MysqlIdle
    /\ part = "pg" \/ PgIdle
    /\ part = "info" \/ InfoIdle

(***************************************************************************)
(* Characters.  A text is a tuple of characters (UTF-16 units).  A         *)
(* character is the one-character string of itself; one that a string of   *)
(* this language cannot spell is the string of its code point, "U+00E9".   *)
(***************************************************************************)
LowerLetters == <<"a","b","c","d","e","f","g","h","i","j","k","l","m",
                  "n","o","p","q","r","s","t","u","v","w","x","y","z">>
UpperLetters == <<"A","B","C","D","E","F","G","H","I","J","K","L","M",
                  "N","O","P","Q","R","S","T","U","V","W","X","Y","Z">>
DigitChars   == <<"0","1","2","3","4","5","6","7","8","9">>

Range(f) == {f[i] : i \in DOMAIN f}

\* the upper-case letter of each lower-case letter
UpperOf == [c \in Range(LowerLetters) |->
               UpperLetters[CHOOSE i \in 1..26 : LowerLetters[i] = c]]

\* the characters below U+0080 (the grave accent, which a string here
\* cannot hold, by its code)
AsciiChars == {
    "U+0000", "U+0001", "U+0002", "U+0003", "U+0004", "U+0005", "U+0006", "U+0007", "U+0008",
    "\t", "\n", "U+000B", "\f", "\r", "U+000E", "U+000F", "U+0010", "U+0011", "U+0012",
    "U+0013", "U+0014", "U+0015", "U+0016", "U+0017", "U+0018", "U+0019", "U+001A", "U+001B",
    "U+001C", "U+001D", "U+001E", "U+001F", " ", "!", "\"", "#", "$", "%", "&", "'", "(", ")",
    "*", "+", ",", "-", ".", "/", "0", "1", "2", "3", "4", "5", "6", "7", "8", "9", ":", ";",
    "<", "=", ">", "?", "@", "A", "B", "C", "D", "E", "F", "G", "H", "I", "J", "K", "L", "M",
    "N", "O", "P", "Q", "R", "S", "T", "U", "V", "W", "X", "Y", "Z", "[", "\\", "]", "^", "_",
    "U+0060", "a", "b", "c", "d", "e", "f", "g", "h", "i", "j", "k", "l", "m", "n", "o", "p", "q",
    "r", "s", "t", "u", "v", "w", "x", "y", "z", "{", "|", "}", "~", "U+007F" }

HexDigits == {"0","1","2","3","4","5","6","7","8","9","A","B","C","D","E","F"}

\* the code units U+D800 to U+DBFF and U+DC00 to U+DFFF; a high surrogate
\* with the low surrogate after it is one character outside the basic plane
HighSurrogates ==
    {"U+D" \o a \o b \o c : a \in {"8", "9", "A", "B"}, b \in HexDigits, c \in HexDigits}
LowSurrogates ==
    {"U+D" \o a \o b \o c : a \in {"C", "D", "E", "F"}, b \in HexDigits, c \in HexDigits}

Surrogates ==
    {"U+D" \o a \o b \o c :
        a \in {"8", "9", "A", "B", "C", "D", "E", "F"}, b \in HexDigits, c \in HexDigits}

\* position i of s and the next one hold a surrogate pair
PairAt(s, i) == i >= 1 /\ i < Len(s) /\ s[i] \in HighSurrogates /\ s[i + 1] \in LowSurrogates

\* String.prototype.toUpperCase outside ASCII: every character of the basic
\* plane that it changes, followed by the one, two or three characters it
\* becomes (the unconditional mappings of the Unicode character database)
UpperRows == <<
    <<"U+00B5","U+039C">>, <<"U+00DF","S","S">>, <<"U+00E0","U+00C0">>, <<"U+00E1","U+00C1">>,
    <<"U+00E2","U+00C2">>, <<"U+00E3","U+00C3">>, <<"U+00E4","U+00C4">>, <<"U+00E5","U+00C5">>,
    <<"U+00E6","U+00C6">>, <<"U+00E7","U+00C7">>, <<"U+00E8","U+00C8">>, <<"U+00E9","U+00C9">>,
    <<"U+00EA","U+00CA">>, <<"U+00EB","U+00CB">>, <<"U+00EC","U+00CC">>, <<"U+00ED","U+00CD">>,
    <<"U+00EE","U+00CE">>, <<"U+00EF","U+00CF">>, <<"U+00F0","U+00D0">>, <<"U+00F1","U+00D1">>,
    <<"U+00F2","U+00D2">>, <<"U+00F3","U+00D3">>, <<"U+00F4","U+00D4">>, <<"U+00F5","U+00D5">>,
    <<"U+00F6","U+00D6">>, <<"U+00F8","U+00D8">>, <<"U+00F9","U+00D9">>, <<"U+00FA","U+00DA">>,
    <<"U+00FB","U+00DB">>, <<"U+00FC","U+00DC">>, <<"U+00FD","U+00DD">>, <<"U+00FE","U+00DE">>,
    <<"U+00FF","U+0178">>, <<"U+0101","U+0100">>, <<"U+0103","U+0102">>, <<"U+0105","U+0104">>,
    <<"U+0107","U+0106">>, <<"U+0109","U+0108">>, <<"U+010B","U+010A">>, <<"U+010D","U+010C">>,
    <<"U+010F","U+010E">>, <<"U+0111","U+0110">>, <<"U+0113","U+0112">>, <<"U+0115","U+0114">>,
    <<"U+0117","U+0116">>, <<"U+0119","U+0118">>, <<"U+011B","U+011A">>, <<"U+011D","U+011C">>,
    <<"U+011F","U+011E">>, <<"U+0121","U+0120">>, <<"U+0123","U+0122">>, <<"U+0125","U+0124">>,
    <<"U+0127","U+0126">>, <<"U+0129","U+0128">>, <<"U+012B","U+012A">>, <<"U+012D","U+012C">>,
    <<"U+012F","U+012E">>, <<"U+0131","I">>, <<"U+0133","U+0132">>, <<"U+0135","U+0134">>,
    <<"U+0137","U+0136">>, <<"U+013A","U+0139">>, <<"U+013C","U+013B">>, <<"U+013E","U+013D">>,
    <<"U+0140","U+013F">>, <<"U+0142","U+0141">>, <<"U+0144","U+0143">>, <<"U+0146","U+0145">>,
    <<"U+0148","U+0147">>, <<"U+0149","U+02BC","N">>, <<"U+014B","U+014A">>,
    <<"U+014D","U+014C">>, <<"U+014F","U+014E">>, <<"U+0151","U+0150">>, <<"U+0153","U+0152">>,
    <<"U+0155","U+0154">>, <<"U+0157","U+0156">>, <<"U+0159","U+0158">>, <<"U+015B","U+015A">>,
    <<"U+015D","U+015C">>, <<"U+015F","U+015E">>, <<"U+0161","U+0160">>, <<"U+0163","U+0162">>,
    <<"U+0165","U+0164">>, <<"U+0167","U+0166">>, <<"U+0169","U+0168">>, <<"U+016B","U+016A">>,
    <<"U+016D","U+016C">>, <<"U+016F","U+016E">>, <<"U+0171","U+0170">>, <<"U+0173","U+0172">>,
    <<"U+0175","U+0174">>, <<"U+0177","U+0176">>, <<"U+017A","U+0179">>, <<"U+017C","U+017B">>,
    <<"U+017E","U+017D">>, <<"U+017F","S">>, <<"U+0180","U+0243">>, <<"U+0183","U+0182">>,
    <<"U+0185","U+0184">>, <<"U+0188","U+0187">>, <<"U+018C","U+018B">>, <<"U+0192","U+0191">>,
    <<"U+0195","U+01F6">>, <<"U+0199","U+0198">>, <<"U+019A","U+023D">>, <<"U+019B","U+A7DC">>,
    <<"U+019E","U+0220">>, <<"U+01A1","U+01A0">>, <<"U+01A3","U+01A2">>, <<"U+01A5","U+01A4">>,
    <<"U+01A8","U+01A7">>, <<"U+01AD","U+01AC">>, <<"U+01B0","U+01AF">>, <<"U+01B4","U+01B3">>,
    <<"U+01B6","U+01B5">>, <<"U+01B9","U+01B8">>, <<"U+01BD","U+01BC">>, <<"U+01BF","U+01F7">>,
    <<"U+01C5","U+01C4">>, <<"U+01C6","U+01C4">>, <<"U+01C8","U+01C7">>, <<"U+01C9","U+01C7">>,
    <<"U+01CB","U+01CA">>, <<"U+01CC","U+01CA">>, <<"U+01CE","U+01CD">>, <<"U+01D0","U+01CF">>,
    <<"U+01D2","U+01D1">>, <<"U+01D4","U+01D3">>, <<"U+01D6","U+01D5">>, <<"U+01D8","U+01D7">>,
    <<"U+01DA","U+01D9">>, <<"U+01DC","U+01DB">>, <<"U+01DD","U+018E">>, <<"U+01DF","U+01DE">>,
    <<"U+01E1","U+01E0">>, <<"U+01E3","U+01E2">>, <<"U+01E5","U+01E4">>, <<"U+01E7","U+01E6">>,
    <<"U+01E9","U+01E8">>, <<"U+01EB","U+01EA">>, <<"U+01ED","U+01EC">>, <<"U+01EF","U+01EE">>,
    <<"U+01F0","J","U+030C">>, <<"U+01F2","U+01F1">>, <<"U+01F3","U+01F1">>,
    <<"U+01F5","U+01F4">>, <<"U+01F9","U+01F8">>, <<"U+01FB","U+01FA">>, <<"U+01FD","U+01FC">>,
    <<"U+01FF","U+01FE">>, <<"U+0201","U+0200">>, <<"U+0203","U+0202">>, <<"U+0205","U+0204">>,
    <<"U+0207","U+0206">>, <<"U+0209","U+0208">>, <<"U+020B","U+020A">>, <<"U+020D","U+020C">>,
    <<"U+020F","U+020E">>, <<"U+0211","U+0210">>, <<"U+0213","U+0212">>, <<"U+0215","U+0214">>,
    <<"U+0217","U+0216">>, <<"U+0219","U+0218">>, <<"U+021B","U+021A">>, <<"U+021D","U+021C">>,
    <<"U+021F","U+021E">>, <<"U+0223","U+0222">>, <<"U+0225","U+0224">>, <<"U+0227","U+0226">>,
    <<"U+0229","U+0228">>, <<"U+022B","U+022A">>, <<"U+022D","U+022C">>, <<"U+022F","U+022E">>,
    <<"U+0231","U+0230">>, <<"U+0233","U+0232">>, <<"U+023C","U+023B">>, <<"U+023F","U+2C7E">>,
    <<"U+0240","U+2C7F">>, <<"U+0242","U+0241">>, <<"U+0247","U+0246">>, <<"U+0249","U+0248">>,
    <<"U+024B","U+024A">>, <<"U+024D","U+024C">>, <<"U+024F","U+024E">>, <<"U+0250","U+2C6F">>,
    <<"U+0251","U+2C6D">>, <<"U+0252","U+2C70">>, <<"U+0253","U+0181">>, <<"U+0254","U+0186">>,
    <<"U+0256","U+0189">>, <<"U+0257","U+018A">>, <<"U+0259","U+018F">>, <<"U+025B","U+0190">>,
    <<"U+025C","U+A7AB">>, <<"U+0260","U+0193">>, <<"U+0261","U+A7AC">>, <<"U+0263","U+0194">>,
    <<"U+0264","U+A7CB">>, <<"U+0265","U+A78D">>, <<"U+0266","U+A7AA">>, <<"U+0268","U+0197">>,
    <<"U+0269","U+0196">>, <<"U+026A","U+A7AE">>, <<"U+026B","U+2C62">>, <<"U+026C","U+A7AD">>,
    <<"U+026F","U+019C">>, <<"U+0271","U+2C6E">>, <<"U+0272","U+019D">>, <<"U+0275","U+019F">>,
    <<"U+027D","U+2C64">>, <<"U+0280","U+01A6">>, <<"U+0282","U+A7C5">>, <<"U+0283","U+01A9">>,
    <<"U+0287","U+A7B1">>, <<"U+0288","U+01AE">>, <<"U+0289","U+0244">>, <<"U+028A","U+01B1">>,
    <<"U+028B","U+01B2">>, <<"U+028C","U+0245">>, <<"U+0292","U+01B7">>, <<"U+029D","U+A7B2">>,
    <<"U+029E","U+A7B0">>, <<"U+0345","U+0399">>, <<"U+0371","U+0370">>, <<"U+0373","U+0372">>,
    <<"U+0377","U+0376">>, <<"U+037B","U+03FD">>, <<"U+037C","U+03FE">>, <<"U+037D","U+03FF">>,
    <<"U+0390","U+0399","U+0308","U+0301">>, <<"U+03AC","U+0386">>, <<"U+03AD","U+0388">>,
    <<"U+03AE","U+0389">>, <<"U+03AF","U+038A">>, <<"U+03B0","U+03A5","U+0308","U+0301">>,
    <<"U+03B1","U+0391">>, <<"U+03B2","U+0392">>, <<"U+03B3","U+0393">>, <<"U+03B4","U+0394">>,
    <<"U+03B5","U+0395">>, <<"U+03B6","U+0396">>, <<"U+03B7","U+0397">>, <<"U+03B8","U+0398">>,
    <<"U+03B9","U+0399">>, <<"U+03BA","U+039A">>, <<"U+03BB","U+039B">>, <<"U+03BC","U+039C">>,
    <<"U+03BD","U+039D">>, <<"U+03BE","U+039E">>, <<"U+03BF","U+039F">>, <<"U+03C0","U+03A0">>,
    <<"U+03C1","U+03A1">>, <<"U+03C2","U+03A3">>, <<"U+03C3","U+03A3">>, <<"U+03C4","U+03A4">>,
    <<"U+03C5","U+03A5">>, <<"U+03C6","U+03A6">>, <<"U+03C7","U+03A7">>, <<"U+03C8","U+03A8">>,
    <<"U+03C9","U+03A9">>, <<"U+03CA","U+03AA">>, <<"U+03CB","U+03AB">>, <<"U+03CC","U+038C">>,
    <<"U+03CD","U+038E">>, <<"U+03CE","U+038F">>, <<"U+03D0","U+0392">>, <<"U+03D1","U+0398">>,
    <<"U+03D5","U+03A6">>, <<"U+03D6","U+03A0">>, <<"U+03D7","U+03CF">>, <<"U+03D9","U+03D8">>,
    <<"U+03DB","U+03DA">>, <<"U+03DD","U+03DC">>, <<"U+03DF","U+03DE">>, <<"U+03E1","U+03E0">>,
    <<"U+03E3","U+03E2">>, <<"U+03E5","U+03E4">>, <<"U+03E7","U+03E6">>, <<"U+03E9","U+03E8">>,
    <<"U+03EB","U+03EA">>, <<"U+03ED","U+03EC">>, <<"U+03EF","U+03EE">>, <<"U+03F0","U+039A">>,
    <<"U+03F1","U+03A1">>, <<"U+03F2","U+03F9">>, <<"U+03F3","U+037F">>, <<"U+03F5","U+0395">>,
    <<"U+03F8","U+03F7">>, <<"U+03FB","U+03FA">>, <<"U+0430","U+0410">>, <<"U+0431","U+0411">>,
    <<"U+0432","U+0412">>, <<"U+0433","U+0413">>, <<"U+0434","U+0414">>, <<"U+0435","U+0415">>,
    <<"U+0436","U+0416">>, <<"U+0437","U+0417">>, <<"U+0438","U+0418">>, <<"U+0439","U+0419">>,
    <<"U+043A","U+041A">>, <<"U+043B","U+041B">>, <<"U+043C","U+041C">>, <<"U+043D","U+041D">>,
    <<"U+043E","U+041E">>, <<"U+043F","U+041F">>, <<"U+0440","U+0420">>, <<"U+0441","U+0421">>,
    <<"U+0442","U+0422">>, <<"U+0443","U+0423">>, <<"U+0444","U+0424">>, <<"U+0445","U+0425">>,
    <<"U+0446","U+0426">>, <<"U+0447","U+0427">>, <<"U+0448","U+0428">>, <<"U+0449","U+0429">>,
    <<"U+044A","U+042A">>, <<"U+044B","U+042B">>, <<"U+044C","U+042C">>, <<"U+044D","U+042D">>,
    <<"U+044E","U+042E">>, <<"U+044F","U+042F">>, <<"U+0450","U+0400">>, <<"U+0451","U+0401">>,
    <<"U+0452","U+0402">>, <<"U+0453","U+0403">>, <<"U+0454","U+0404">>, <<"U+0455","U+0405">>,
    <<"U+0456","U+0406">>, <<"U+0457","U+0407">>, <<"U+0458","U+0408">>, <<"U+0459","U+0409">>,
    <<"U+045A","U+040A">>, <<"U+045B","U+040B">>, <<"U+045C","U+040C">>, <<"U+045D","U+040D">>,
    <<"U+045E","U+040E">>, <<"U+045F","U+040F">>, <<"U+0461","U+0460">>, <<"U+0463","U+0462">>,
    <<"U+0465","U+0464">>, <<"U+0467","U+0466">>, <<"U+0469","U+0468">>, <<"U+046B","U+046A">>,
    <<"U+046D","U+046C">>, <<"U+046F","U+046E">>, <<"U+0471","U+0470">>, <<"U+0473","U+0472">>,
    <<"U+0475","U+0474">>, <<"U+0477","U+0476">>, <<"U+0479","U+0478">>, <<"U+047B","U+047A">>,
    <<"U+047D","U+047C">>, <<"U+047F","U+047E">>, <<"U+0481","U+0480">>, <<"U+048B","U+048A">>,
    <<"U+048D","U+048C">>, <<"U+048F","U+048E">>, <<"U+0491","U+0490">>, <<"U+0493","U+0492">>,
    <<"U+0495","U+0494">>, <<"U+0497","U+0496">>, <<"U+0499","U+0498">>, <<"U+049B","U+049A">>,
    <<"U+049D","U+049C">>, <<"U+049F","U+049E">>, <<"U+04A1","U+04A0">>, <<"U+04A3","U+04A2">>,
    <<"U+04A5","U+04A4">>, <<"U+04A7","U+04A6">>, <<"U+04A9","U+04A8">>, <<"U+04AB","U+04AA">>,
    <<"U+04AD","U+04AC">>, <<"U+04AF","U+04AE">>, <<"U+04B1","U+04B0">>, <<"U+04B3","U+04B2">>,
    <<"U+04B5","U+04B4">>, <<"U+04B7","U+04B6">>, <<"U+04B9","U+04B8">>, <<"U+04BB","U+04BA">>,
    <<"U+04BD","U+04BC">>, <<"U+04BF","U+04BE">>, <<"U+04C2","U+04C1">>, <<"U+04C4","U+04C3">>,
    <<"U+04C6","U+04C5">>, <<"U+04C8","U+04C7">>, <<"U+04CA","U+04C9">>, <<"U+04CC","U+04CB">>,
    <<"U+04CE","U+04CD">>, <<"U+04CF","U+04C0">>, <<"U+04D1","U+04D0">>, <<"U+04D3","U+04D2">>,
    <<"U+04D5","U+04D4">>, <<"U+04D7","U+04D6">>, <<"U+04D9","U+04D8">>, <<"U+04DB","U+04DA">>,
    <<"U+04DD","U+04DC">>, <<"U+04DF","U+04DE">>, <<"U+04E1","U+04E0">>, <<"U+04E3","U+04E2">>,
    <<"U+04E5","U+04E4">>, <<"U+04E7","U+04E6">>, <<"U+04E9","U+04E8">>, <<"U+04EB","U+04EA">>,
    <<"U+04ED","U+04EC">>, <<"U+04EF","U+04EE">>, <<"U+04F1","U+04F0">>, <<"U+04F3","U+04F2">>,
    <<"U+04F5","U+04F4">>, <<"U+04F7","U+04F6">>, <<"U+04F9","U+04F8">>, <<"U+04FB","U+04FA">>,
    <<"U+04FD","U+04FC">>, <<"U+04FF","U+04FE">>, <<"U+0501","U+0500">>, <<"U+0503","U+0502">>,
    <<"U+0505","U+0504">>, <<"U+0507","U+0506">>, <<"U+0509","U+0508">>, <<"U+050B","U+050A">>,
    <<"U+050D","U+050C">>, <<"U+050F","U+050E">>, <<"U+0511","U+0510">>, <<"U+0513","U+0512">>,
    <<"U+0515","U+0514">>, <<"U+0517","U+0516">>, <<"U+0519","U+0518">>, <<"U+051B","U+051A">>,
    <<"U+051D","U+051C">>, <<"U+051F","U+051E">>, <<"U+0521","U+0520">>, <<"U+0523","U+0522">>,
    <<"U+0525","U+0524">>, <<"U+0527","U+0526">>, <<"U+0529","U+0528">>, <<"U+052B","U+052A">>,
    <<"U+052D","U+052C">>, <<"U+052F","U+052E">>, <<"U+0561","U+0531">>, <<"U+0562","U+0532">>,
    <<"U+0563","U+0533">>, <<"U+0564","U+0534">>, <<"U+0565","U+0535">>, <<"U+0566","U+0536">>,
    <<"U+0567","U+0537">>, <<"U+0568","U+0538">>, <<"U+0569","U+0539">>, <<"U+056A","U+053A">>,
    <<"U+056B","U+053B">>, <<"U+056C","U+053C">>, <<"U+056D","U+053D">>, <<"U+056E","U+053E">>,
    <<"U+056F","U+053F">>, <<"U+0570","U+0540">>, <<"U+0571","U+0541">>, <<"U+0572","U+0542">>,
    <<"U+0573","U+0543">>, <<"U+0574","U+0544">>, <<"U+0575","U+0545">>, <<"U+0576","U+0546">>,
    <<"U+0577","U+0547">>, <<"U+0578","U+0548">>, <<"U+0579","U+0549">>, <<"U+057A","U+054A">>,
    <<"U+057B","U+054B">>, <<"U+057C","U+054C">>, <<"U+057D","U+054D">>, <<"U+057E","U+054E">>,
    <<"U+057F","U+054F">>, <<"U+0580","U+0550">>, <<"U+0581","U+0551">>, <<"U+0582","U+0552">>,
    <<"U+0583","U+0553">>, <<"U+0584","U+0554">>, <<"U+0585","U+0555">>, <<"U+0586","U+0556">>,
    <<"U+0587","U+0535","U+0552">>, <<"U+10D0","U+1C90">>, <<"U+10D1","U+1C91">>,
    <<"U+10D2","U+1C92">>, <<"U+10D3","U+1C93">>, <<"U+10D4","U+1C94">>, <<"U+10D5","U+1C95">>,
    <<"U+10D6","U+1C96">>, <<"U+10D7","U+1C97">>, <<"U+10D8","U+1C98">>, <<"U+10D9","U+1C99">>,
    <<"U+10DA","U+1C9A">>, <<"U+10DB","U+1C9B">>, <<"U+10DC","U+1C9C">>, <<"U+10DD","U+1C9D">>,
    <<"U+10DE","U+1C9E">>, <<"U+10DF","U+1C9F">>, <<"U+10E0","U+1CA0">>, <<"U+10E1","U+1CA1">>,
    <<"U+10E2","U+1CA2">>, <<"U+10E3","U+1CA3">>, <<"U+10E4","U+1CA4">>, <<"U+10E5","U+1CA5">>,
    <<"U+10E6","U+1CA6">>, <<"U+10E7","U+1CA7">>, <<"U+10E8","U+1CA8">>, <<"U+10E9","U+1CA9">>,
    <<"U+10EA","U+1CAA">>, <<"U+10EB","U+1CAB">>, <<"U+10EC","U+1CAC">>, <<"U+10ED","U+1CAD">>,
    <<"U+10EE","U+1CAE">>, <<"U+10EF","U+1CAF">>, <<"U+10F0","U+1CB0">>, <<"U+10F1","U+1CB1">>,
    <<"U+10F2","U+1CB2">>, <<"U+10F3","U+1CB3">>, <<"U+10F4","U+1CB4">>, <<"U+10F5","U+1CB5">>,
    <<"U+10F6","U+1CB6">>, <<"U+10F7","U+1CB7">>, <<"U+10F8","U+1CB8">>, <<"U+10F9","U+1CB9">>,
    <<"U+10FA","U+1CBA">>, <<"U+10FD","U+1CBD">>, <<"U+10FE","U+1CBE">>, <<"U+10FF","U+1CBF">>,
    <<"U+13F8","U+13F0">>, <<"U+13F9","U+13F1">>, <<"U+13FA","U+13F2">>, <<"U+13FB","U+13F3">>,
    <<"U+13FC","U+13F4">>, <<"U+13FD","U+13F5">>, <<"U+1C80","U+0412">>, <<"U+1C81","U+0414">>,
    <<"U+1C82","U+041E">>, <<"U+1C83","U+0421">>, <<"U+1C84","U+0422">>, <<"U+1C85","U+0422">>,
    <<"U+1C86","U+042A">>, <<"U+1C87","U+0462">>, <<"U+1C88","U+A64A">>, <<"U+1C8A","U+1C89">>,
    <<"U+1D79","U+A77D">>, <<"U+1D7D","U+2C63">>, <<"U+1D8E","U+A7C6">>, <<"U+1E01","U+1E00">>,
    <<"U+1E03","U+1E02">>, <<"U+1E05","U+1E04">>, <<"U+1E07","U+1E06">>, <<"U+1E09","U+1E08">>,
    <<"U+1E0B","U+1E0A">>, <<"U+1E0D","U+1E0C">>, <<"U+1E0F","U+1E0E">>, <<"U+1E11","U+1E10">>,
    <<"U+1E13","U+1E12">>, <<"U+1E15","U+1E14">>, <<"U+1E17","U+1E16">>, <<"U+1E19","U+1E18">>,
    <<"U+1E1B","U+1E1A">>, <<"U+1E1D","U+1E1C">>, <<"U+1E1F","U+1E1E">>, <<"U+1E21","U+1E20">>,
    <<"U+1E23","U+1E22">>, <<"U+1E25","U+1E24">>, <<"U+1E27","U+1E26">>, <<"U+1E29","U+1E28">>,
    <<"U+1E2B","U+1E2A">>, <<"U+1E2D","U+1E2C">>, <<"U+1E2F","U+1E2E">>, <<"U+1E31","U+1E30">>,
    <<"U+1E33","U+1E32">>, <<"U+1E35","U+1E34">>, <<"U+1E37","U+1E36">>, <<"U+1E39","U+1E38">>,
    <<"U+1E3B","U+1E3A">>, <<"U+1E3D","U+1E3C">>, <<"U+1E3F","U+1E3E">>, <<"U+1E41","U+1E40">>,
    <<"U+1E43","U+1E42">>, <<"U+1E45","U+1E44">>, <<"U+1E47","U+1E46">>, <<"U+1E49","U+1E48">>,
    <<"U+1E4B","U+1E4A">>, <<"U+1E4D","U+1E4C">>, <<"U+1E4F","U+1E4E">>, <<"U+1E51","U+1E50">>,
    <<"U+1E53","U+1E52">>, <<"U+1E55","U+1E54">>, <<"U+1E57","U+1E56">>, <<"U+1E59","U+1E58">>,
    <<"U+1E5B","U+1E5A">>, <<"U+1E5D","U+1E5C">>, <<"U+1E5F","U+1E5E">>, <<"U+1E61","U+1E60">>,
    <<"U+1E63","U+1E62">>, <<"U+1E65","U+1E64">>, <<"U+1E67","U+1E66">>, <<"U+1E69","U+1E68">>,
    <<"U+1E6B","U+1E6A">>, <<"U+1E6D","U+1E6C">>, <<"U+1E6F","U+1E6E">>, <<"U+1E71","U+1E70">>,
    <<"U+1E73","U+1E72">>, <<"U+1E75","U+1E74">>, <<"U+1E77","U+1E76">>, <<"U+1E79","U+1E78">>,
    <<"U+1E7B","U+1E7A">>, <<"U+1E7D","U+1E7C">>, <<"U+1E7F","U+1E7E">>, <<"U+1E81","U+1E80">>,
    <<"U+1E83","U+1E82">>, <<"U+1E85","U+1E84">>, <<"U+1E87","U+1E86">>, <<"U+1E89","U+1E88">>,
    <<"U+1E8B","U+1E8A">>, <<"U+1E8D","U+1E8C">>, <<"U+1E8F","U+1E8E">>, <<"U+1E91","U+1E90">>,
    <<"U+1E93","U+1E92">>, <<"U+1E95","U+1E94">>, <<"U+1E96","H","U+0331">>,
    <<"U+1E97","T","U+0308">>, <<"U+1E98","W","U+030A">>, <<"U+1E99","Y","U+030A">>,
    <<"U+1E9A","A","U+02BE">>, <<"U+1E9B","U+1E60">>, <<"U+1EA1","U+1EA0">>,
    <<"U+1EA3","U+1EA2">>, <<"U+1EA5","U+1EA4">>, <<"U+1EA7","U+1EA6">>, <<"U+1EA9","U+1EA8">>,
    <<"U+1EAB","U+1EAA">>, <<"U+1EAD","U+1EAC">>, <<"U+1EAF","U+1EAE">>, <<"U+1EB1","U+1EB0">>,
    <<"U+1EB3","U+1EB2">>, <<"U+1EB5","U+1EB4">>, <<"U+1EB7","U+1EB6">>, <<"U+1EB9","U+1EB8">>,
    <<"U+1EBB","U+1EBA">>, <<"U+1EBD","U+1EBC">>, <<"U+1EBF","U+1EBE">>, <<"U+1EC1","U+1EC0">>,
    <<"U+1EC3","U+1EC2">>, <<"U+1EC5","U+1EC4">>, <<"U+1EC7","U+1EC6">>, <<"U+1EC9","U+1EC8">>,
    <<"U+1ECB","U+1ECA">>, <<"U+1ECD","U+1ECC">>, <<"U+1ECF","U+1ECE">>, <<"U+1ED1","U+1ED0">>,
    <<"U+1ED3","U+1ED2">>, <<"U+1ED5","U+1ED4">>, <<"U+1ED7","U+1ED6">>, <<"U+1ED9","U+1ED8">>,
    <<"U+1EDB","U+1EDA">>, <<"U+1EDD","U+1EDC">>, <<"U+1EDF","U+1EDE">>, <<"U+1EE1","U+1EE0">>,
    <<"U+1EE3","U+1EE2">>, <<"U+1EE5","U+1EE4">>, <<"U+1EE7","U+1EE6">>, <<"U+1EE9","U+1EE8">>,
    <<"U+1EEB","U+1EEA">>, <<"U+1EED","U+1EEC">>, <<"U+1EEF","U+1EEE">>, <<"U+1EF1","U+1EF0">>,
    <<"U+1EF3","U+1EF2">>, <<"U+1EF5","U+1EF4">>, <<"U+1EF7","U+1EF6">>, <<"U+1EF9","U+1EF8">>,
    <<"U+1EFB","U+1EFA">>, <<"U+1EFD","U+1EFC">>, <<"U+1EFF","U+1EFE">>, <<"U+1F00","U+1F08">>,
    <<"U+1F01","U+1F09">>, <<"U+1F02","U+1F0A">>, <<"U+1F03","U+1F0B">>, <<"U+1F04","U+1F0C">>,
    <<"U+1F05","U+1F0D">>, <<"U+1F06","U+1F0E">>, <<"U+1F07","U+1F0F">>, <<"U+1F10","U+1F18">>,
    <<"U+1F11","U+1F19">>, <<"U+1F12","U+1F1A">>, <<"U+1F13","U+1F1B">>, <<"U+1F14","U+1F1C">>,
    <<"U+1F15","U+1F1D">>, <<"U+1F20","U+1F28">>, <<"U+1F21","U+1F29">>, <<"U+1F22","U+1F2A">>,
    <<"U+1F23","U+1F2B">>, <<"U+1F24","U+1F2C">>, <<"U+1F25","U+1F2D">>, <<"U+1F26","U+1F2E">>,
    <<"U+1F27","U+1F2F">>, <<"U+1F30","U+1F38">>, <<"U+1F31","U+1F39">>, <<"U+1F32","U+1F3A">>,
    <<"U+1F33","U+1F3B">>, <<"U+1F34","U+1F3C">>, <<"U+1F35","U+1F3D">>, <<"U+1F36","U+1F3E">>,
    <<"U+1F37","U+1F3F">>, <<"U+1F40","U+1F48">>, <<"U+1F41","U+1F49">>, <<"U+1F42","U+1F4A">>,
    <<"U+1F43","U+1F4B">>, <<"U+1F44","U+1F4C">>, <<"U+1F45","U+1F4D">>,
    <<"U+1F50","U+03A5","U+0313">>, <<"U+1F51","U+1F59">>,
    <<"U+1F52","U+03A5","U+0313","U+0300">>, <<"U+1F53","U+1F5B">>,
    <<"U+1F54","U+03A5","U+0313","U+0301">>, <<"U+1F55","U+1F5D">>,
    <<"U+1F56","U+03A5","U+0313","U+0342">>, <<"U+1F57","U+1F5F">>, <<"U+1F60","U+1F68">>,
    <<"U+1F61","U+1F69">>, <<"U+1F62","U+1F6A">>, <<"U+1F63","U+1F6B">>, <<"U+1F64","U+1F6C">>,
    <<"U+1F65","U+1F6D">>, <<"U+1F66","U+1F6E">>, <<"U+1F67","U+1F6F">>, <<"U+1F70","U+1FBA">>,
    <<"U+1F71","U+1FBB">>, <<"U+1F72","U+1FC8">>, <<"U+1F73","U+1FC9">>, <<"U+1F74","U+1FCA">>,
    <<"U+1F75","U+1FCB">>, <<"U+1F76","U+1FDA">>, <<"U+1F77","U+1FDB">>, <<"U+1F78","U+1FF8">>,
    <<"U+1F79","U+1FF9">>, <<"U+1F7A","U+1FEA">>, <<"U+1F7B","U+1FEB">>, <<"U+1F7C","U+1FFA">>,
    <<"U+1F7D","U+1FFB">>, <<"U+1F80","U+1F08","U+0399">>, <<"U+1F81","U+1F09","U+0399">>,
    <<"U+1F82","U+1F0A","U+0399">>, <<"U+1F83","U+1F0B","U+0399">>,
    <<"U+1F84","U+1F0C","U+0399">>, <<"U+1F85","U+1F0D","U+0399">>,
    <<"U+1F86","U+1F0E","U+0399">>, <<"U+1F87","U+1F0F","U+0399">>,
    <<"U+1F88","U+1F08","U+0399">>, <<"U+1F89","U+1F09","U+0399">>,
    <<"U+1F8A","U+1F0A","U+0399">>, <<"U+1F8B","U+1F0B","U+0399">>,
    <<"U+1F8C","U+1F0C","U+0399">>, <<"U+1F8D","U+1F0D","U+0399">>,
    <<"U+1F8E","U+1F0E","U+0399">>, <<"U+1F8F","U+1F0F","U+0399">>,
    <<"U+1F90","U+1F28","U+0399">>, <<"U+1F91","U+1F29","U+0399">>,
    <<"U+1F92","U+1F2A","U+0399">>, <<"U+1F93","U+1F2B","U+0399">>,
    <<"U+1F94","U+1F2C","U+0399">>, <<"U+1F95","U+1F2D","U+0399">>,
    <<"U+1F96","U+1F2E","U+0399">>, <<"U+1F97","U+1F2F","U+0399">>,
    <<"U+1F98","U+1F28","U+0399">>, <<"U+1F99","U+1F29","U+0399">>,
    <<"U+1F9A","U+1F2A","U+0399">>, <<"U+1F9B","U+1F2B","U+0399">>,
    <<"U+1F9C","U+1F2C","U+0399">>, <<"U+1F9D","U+1F2D","U+0399">>,
    <<"U+1F9E","U+1F2E","U+0399">>, <<"U+1F9F","U+1F2F","U+0399">>,
    <<"U+1FA0","U+1F68","U+0399">>, <<"U+1FA1","U+1F69","U+0399">>,
    <<"U+1FA2","U+1F6A","U+0399">>, <<"U+1FA3","U+1F6B","U+0399">>,
    <<"U+1FA4","U+1F6C","U+0399">>, <<"U+1FA5","U+1F6D","U+0399">>,
    <<"U+1FA6","U+1F6E","U+0399">>, <<"U+1FA7","U+1F6F","U+0399">>,
    <<"U+1FA8","U+1F68","U+0399">>, <<"U+1FA9","U+1F69","U+0399">>,
    <<"U+1FAA","U+1F6A","U+0399">>, <<"U+1FAB","U+1F6B","U+0399">>,
    <<"U+1FAC","U+1F6C","U+0399">>, <<"U+1FAD","U+1F6D","U+0399">>,
    <<"U+1FAE","U+1F6E","U+0399">>, <<"U+1FAF","U+1F6F","U+0399">>, <<"U+1FB0","U+1FB8">>,
    <<"U+1FB1","U+1FB9">>, <<"U+1FB2","U+1FBA","U+0399">>, <<"U+1FB3","U+0391","U+0399">>,
    <<"U+1FB4","U+0386","U+0399">>, <<"U+1FB6","U+0391","U+0342">>,
    <<"U+1FB7","U+0391","U+0342","U+0399">>, <<"U+1FBC","U+0391","U+0399">>,
    <<"U+1FBE","U+0399">>, <<"U+1FC2","U+1FCA","U+0399">>, <<"U+1FC3","U+0397","U+0399">>,
    <<"U+1FC4","U+0389","U+0399">>, <<"U+1FC6","U+0397","U+0342">>,
    <<"U+1FC7","U+0397","U+0342","U+0399">>, <<"U+1FCC","U+0397","U+0399">>,
    <<"U+1FD0","U+1FD8">>, <<"U+1FD1","U+1FD9">>, <<"U+1FD2","U+0399","U+0308","U+0300">>,
    <<"U+1FD3","U+0399","U+0308","U+0301">>, <<"U+1FD6","U+0399","U+0342">>,
    <<"U+1FD7","U+0399","U+0308","U+0342">>, <<"U+1FE0","U+1FE8">>, <<"U+1FE1","U+1FE9">>,
    <<"U+1FE2","U+03A5","U+0308","U+0300">>, <<"U+1FE3","U+03A5","U+0308","U+0301">>,
    <<"U+1FE4","U+03A1","U+0313">>, <<"U+1FE5","U+1FEC">>, <<"U+1FE6","U+03A5","U+0342">>,
    <<"U+1FE7","U+03A5","U+0308","U+0342">>, <<"U+1FF2","U+1FFA","U+0399">>,
    <<"U+1FF3","U+03A9","U+0399">>, <<"U+1FF4","U+038F","U+0399">>,
    <<"U+1FF6","U+03A9","U+0342">>, <<"U+1FF7","U+03A9","U+0342","U+0399">>,
    <<"U+1FFC","U+03A9","U+0399">>, <<"U+214E","U+2132">>, <<"U+2170","U+2160">>,
    <<"U+2171","U+2161">>, <<"U+2172","U+2162">>, <<"U+2173","U+2163">>, <<"U+2174","U+2164">>,
    <<"U+2175","U+2165">>, <<"U+2176","U+2166">>, <<"U+2177","U+2167">>, <<"U+2178","U+2168">>,
    <<"U+2179","U+2169">>, <<"U+217A","U+216A">>, <<"U+217B","U+216B">>, <<"U+217C","U+216C">>,
    <<"U+217D","U+216D">>, <<"U+217E","U+216E">>, <<"U+217F","U+216F">>, <<"U+2184","U+2183">>,
    <<"U+24D0","U+24B6">>, <<"U+24D1","U+24B7">>, <<"U+24D2","U+24B8">>, <<"U+24D3","U+24B9">>,
    <<"U+24D4","U+24BA">>, <<"U+24D5","U+24BB">>, <<"U+24D6","U+24BC">>, <<"U+24D7","U+24BD">>,
    <<"U+24D8","U+24BE">>, <<"U+24D9","U+24BF">>, <<"U+24DA","U+24C0">>, <<"U+24DB","U+24C1">>,
    <<"U+24DC","U+24C2">>, <<"U+24DD","U+24C3">>, <<"U+24DE","U+24C4">>, <<"U+24DF","U+24C5">>,
    <<"U+24E0","U+24C6">>, <<"U+24E1","U+24C7">>, <<"U+24E2","U+24C8">>, <<"U+24E3","U+24C9">>,
    <<"U+24E4","U+24CA">>, <<"U+24E5","U+24CB">>, <<"U+24E6","U+24CC">>, <<"U+24E7","U+24CD">>,
    <<"U+24E8","U+24CE">>, <<"U+24E9","U+24CF">>, <<"U+2C30","U+2C00">>, <<"U+2C31","U+2C01">>,
    <<"U+2C32","U+2C02">>, <<"U+2C33","U+2C03">>, <<"U+2C34","U+2C04">>, <<"U+2C35","U+2C05">>,
    <<"U+2C36","U+2C06">>, <<"U+2C37","U+2C07">>, <<"U+2C38","U+2C08">>, <<"U+2C39","U+2C09">>,
    <<"U+2C3A","U+2C0A">>, <<"U+2C3B","U+2C0B">>, <<"U+2C3C","U+2C0C">>, <<"U+2C3D","U+2C0D">>,
    <<"U+2C3E","U+2C0E">>, <<"U+2C3F","U+2C0F">>, <<"U+2C40","U+2C10">>, <<"U+2C41","U+2C11">>,
    <<"U+2C42","U+2C12">>, <<"U+2C43","U+2C13">>, <<"U+2C44","U+2C14">>, <<"U+2C45","U+2C15">>,
    <<"U+2C46","U+2C16">>, <<"U+2C47","U+2C17">>, <<"U+2C48","U+2C18">>, <<"U+2C49","U+2C19">>,
    <<"U+2C4A","U+2C1A">>, <<"U+2C4B","U+2C1B">>, <<"U+2C4C","U+2C1C">>, <<"U+2C4D","U+2C1D">>,
    <<"U+2C4E","U+2C1E">>, <<"U+2C4F","U+2C1F">>, <<"U+2C50","U+2C20">>, <<"U+2C51","U+2C21">>,
    <<"U+2C52","U+2C22">>, <<"U+2C53","U+2C23">>, <<"U+2C54","U+2C24">>, <<"U+2C55","U+2C25">>,
    <<"U+2C56","U+2C26">>, <<"U+2C57","U+2C27">>, <<"U+2C58","U+2C28">>, <<"U+2C59","U+2C29">>,
    <<"U+2C5A","U+2C2A">>, <<"U+2C5B","U+2C2B">>, <<"U+2C5C","U+2C2C">>, <<"U+2C5D","U+2C2D">>,
    <<"U+2C5E","U+2C2E">>, <<"U+2C5F","U+2C2F">>, <<"U+2C61","U+2C60">>, <<"U+2C65","U+023A">>,
    <<"U+2C66","U+023E">>, <<"U+2C68","U+2C67">>, <<"U+2C6A","U+2C69">>, <<"U+2C6C","U+2C6B">>,
    <<"U+2C73","U+2C72">>, <<"U+2C76","U+2C75">>, <<"U+2C81","U+2C80">>, <<"U+2C83","U+2C82">>,
    <<"U+2C85","U+2C84">>, <<"U+2C87","U+2C86">>, <<"U+2C89","U+2C88">>, <<"U+2C8B","U+2C8A">>,
    <<"U+2C8D","U+2C8C">>, <<"U+2C8F","U+2C8E">>, <<"U+2C91","U+2C90">>, <<"U+2C93","U+2C92">>,
    <<"U+2C95","U+2C94">>, <<"U+2C97","U+2C96">>, <<"U+2C99","U+2C98">>, <<"U+2C9B","U+2C9A">>,
    <<"U+2C9D","U+2C9C">>, <<"U+2C9F","U+2C9E">>, <<"U+2CA1","U+2CA0">>, <<"U+2CA3","U+2CA2">>,
    <<"U+2CA5","U+2CA4">>, <<"U+2CA7","U+2CA6">>, <<"U+2CA9","U+2CA8">>, <<"U+2CAB","U+2CAA">>,
    <<"U+2CAD","U+2CAC">>, <<"U+2CAF","U+2CAE">>, <<"U+2CB1","U+2CB0">>, <<"U+2CB3","U+2CB2">>,
    <<"U+2CB5","U+2CB4">>, <<"U+2CB7","U+2CB6">>, <<"U+2CB9","U+2CB8">>, <<"U+2CBB","U+2CBA">>,
    <<"U+2CBD","U+2CBC">>, <<"U+2CBF","U+2CBE">>, <<"U+2CC1","U+2CC0">>, <<"U+2CC3","U+2CC2">>,
    <<"U+2CC5","U+2CC4">>, <<"U+2CC7","U+2CC6">>, <<"U+2CC9","U+2CC8">>, <<"U+2CCB","U+2CCA">>,
    <<"U+2CCD","U+2CCC">>, <<"U+2CCF","U+2CCE">>, <<"U+2CD1","U+2CD0">>, <<"U+2CD3","U+2CD2">>,
    <<"U+2CD5","U+2CD4">>, <<"U+2CD7","U+2CD6">>, <<"U+2CD9","U+2CD8">>, <<"U+2CDB","U+2CDA">>,
    <<"U+2CDD","U+2CDC">>, <<"U+2CDF","U+2CDE">>, <<"U+2CE1","U+2CE0">>, <<"U+2CE3","U+2CE2">>,
    <<"U+2CEC","U+2CEB">>, <<"U+2CEE","U+2CED">>, <<"U+2CF3","U+2CF2">>, <<"U+2D00","U+10A0">>,
    <<"U+2D01","U+10A1">>, <<"U+2D02","U+10A2">>, <<"U+2D03","U+10A3">>, <<"U+2D04","U+10A4">>,
    <<"U+2D05","U+10A5">>, <<"U+2D06","U+10A6">>, <<"U+2D07","U+10A7">>, <<"U+2D08","U+10A8">>,
    <<"U+2D09","U+10A9">>, <<"U+2D0A","U+10AA">>, <<"U+2D0B","U+10AB">>, <<"U+2D0C","U+10AC">>,
    <<"U+2D0D","U+10AD">>, <<"U+2D0E","U+10AE">>, <<"U+2D0F","U+10AF">>, <<"U+2D10","U+10B0">>,
    <<"U+2D11","U+10B1">>, <<"U+2D12","U+10B2">>, <<"U+2D13","U+10B3">>, <<"U+2D14","U+10B4">>,
    <<"U+2D15","U+10B5">>, <<"U+2D16","U+10B6">>, <<"U+2D17","U+10B7">>, <<"U+2D18","U+10B8">>,
    <<"U+2D19","U+10B9">>, <<"U+2D1A","U+10BA">>, <<"U+2D1B","U+10BB">>, <<"U+2D1C","U+10BC">>,
    <<"U+2D1D","U+10BD">>, <<"U+2D1E","U+10BE">>, <<"U+2D1F","U+10BF">>, <<"U+2D20","U+10C0">>,
    <<"U+2D21","U+10C1">>, <<"U+2D22","U+10C2">>, <<"U+2D23","U+10C3">>, <<"U+2D24","U+10C4">>,
    <<"U+2D25","U+10C5">>, <<"U+2D27","U+10C7">>, <<"U+2D2D","U+10CD">>, <<"U+A641","U+A640">>,
    <<"U+A643","U+A642">>, <<"U+A645","U+A644">>, <<"U+A647","U+A646">>, <<"U+A649","U+A648">>,
    <<"U+A64B","U+A64A">>, <<"U+A64D","U+A64C">>, <<"U+A64F","U+A64E">>, <<"U+A651","U+A650">>,
    <<"U+A653","U+A652">>, <<"U+A655","U+A654">>, <<"U+A657","U+A656">>, <<"U+A659","U+A658">>,
    <<"U+A65B","U+A65A">>, <<"U+A65D","U+A65C">>, <<"U+A65F","U+A65E">>, <<"U+A661","U+A660">>,
    <<"U+A663","U+A662">>, <<"U+A665","U+A664">>, <<"U+A667","U+A666">>, <<"U+A669","U+A668">>,
    <<"U+A66B","U+A66A">>, <<"U+A66D","U+A66C">>, <<"U+A681","U+A680">>, <<"U+A683","U+A682">>,
    <<"U+A685","U+A684">>, <<"U+A687","U+A686">>, <<"U+A689","U+A688">>, <<"U+A68B","U+A68A">>,
    <<"U+A68D","U+A68C">>, <<"U+A68F","U+A68E">>, <<"U+A691","U+A690">>, <<"U+A693","U+A692">>,
    <<"U+A695","U+A694">>, <<"U+A697","U+A696">>, <<"U+A699","U+A698">>, <<"U+A69B","U+A69A">>,
    <<"U+A723","U+A722">>, <<"U+A725","U+A724">>, <<"U+A727","U+A726">>, <<"U+A729","U+A728">>,
    <<"U+A72B","U+A72A">>, <<"U+A72D","U+A72C">>, <<"U+A72F","U+A72E">>, <<"U+A733","U+A732">>,
    <<"U+A735","U+A734">>, <<"U+A737","U+A736">>, <<"U+A739","U+A738">>, <<"U+A73B","U+A73A">>,
    <<"U+A73D","U+A73C">>, <<"U+A73F","U+A73E">>, <<"U+A741","U+A740">>, <<"U+A743","U+A742">>,
    <<"U+A745","U+A744">>, <<"U+A747","U+A746">>, <<"U+A749","U+A748">>, <<"U+A74B","U+A74A">>,
    <<"U+A74D","U+A74C">>, <<"U+A74F","U+A74E">>, <<"U+A751","U+A750">>, <<"U+A753","U+A752">>,
    <<"U+A755","U+A754">>, <<"U+A757","U+A756">>, <<"U+A759","U+A758">>, <<"U+A75B","U+A75A">>,
    <<"U+A75D","U+A75C">>, <<"U+A75F","U+A75E">>, <<"U+A761","U+A760">>, <<"U+A763","U+A762">>,
    <<"U+A765","U+A764">>, <<"U+A767","U+A766">>, <<"U+A769","U+A768">>, <<"U+A76B","U+A76A">>,
    <<"U+A76D","U+A76C">>, <<"U+A76F","U+A76E">>, <<"U+A77A","U+A779">>, <<"U+A77C","U+A77B">>,
    <<"U+A77F","U+A77E">>, <<"U+A781","U+A780">>, <<"U+A783","U+A782">>, <<"U+A785","U+A784">>,
    <<"U+A787","U+A786">>, <<"U+A78C","U+A78B">>, <<"U+A791","U+A790">>, <<"U+A793","U+A792">>,
    <<"U+A794","U+A7C4">>, <<"U+A797","U+A796">>, <<"U+A799","U+A798">>, <<"U+A79B","U+A79A">>,
    <<"U+A79D","U+A79C">>, <<"U+A79F","U+A79E">>, <<"U+A7A1","U+A7A0">>, <<"U+A7A3","U+A7A2">>,
    <<"U+A7A5","U+A7A4">>, <<"U+A7A7","U+A7A6">>, <<"U+A7A9","U+A7A8">>, <<"U+A7B5","U+A7B4">>,
    <<"U+A7B7","U+A7B6">>, <<"U+A7B9","U+A7B8">>, <<"U+A7BB","U+A7BA">>, <<"U+A7BD","U+A7BC">>,
    <<"U+A7BF","U+A7BE">>, <<"U+A7C1","U+A7C0">>, <<"U+A7C3","U+A7C2">>, <<"U+A7C8","U+A7C7">>,
    <<"U+A7CA","U+A7C9">>, <<"U+A7CD","U+A7CC">>, <<"U+A7CF","U+A7CE">>, <<"U+A7D1","U+A7D0">>,
    <<"U+A7D3","U+A7D2">>, <<"U+A7D5","U+A7D4">>, <<"U+A7D7","U+A7D6">>, <<"U+A7D9","U+A7D8">>,
    <<"U+A7DB","U+A7DA">>, <<"U+A7F6","U+A7F5">>, <<"U+AB53","U+A7B3">>, <<"U+AB70","U+13A0">>,
    <<"U+AB71","U+13A1">>, <<"U+AB72","U+13A2">>, <<"U+AB73","U+13A3">>, <<"U+AB74","U+13A4">>,
    <<"U+AB75","U+13A5">>, <<"U+AB76","U+13A6">>, <<"U+AB77","U+13A7">>, <<"U+AB78","U+13A8">>,
    <<"U+AB79","U+13A9">>, <<"U+AB7A","U+13AA">>, <<"U+AB7B","U+13AB">>, <<"U+AB7C","U+13AC">>,
    <<"U+AB7D","U+13AD">>, <<"U+AB7E","U+13AE">>, <<"U+AB7F","U+13AF">>, <<"U+AB80","U+13B0">>,
    <<"U+AB81","U+13B1">>, <<"U+AB82","U+13B2">>, <<"U+AB83","U+13B3">>, <<"U+AB84","U+13B4">>,
    <<"U+AB85","U+13B5">>, <<"U+AB86","U+13B6">>, <<"U+AB87","U+13B7">>, <<"U+AB88","U+13B8">>,
    <<"U+AB89","U+13B9">>, <<"U+AB8A","U+13BA">>, <<"U+AB8B","U+13BB">>, <<"U+AB8C","U+13BC">>,
    <<"U+AB8D","U+13BD">>, <<"U+AB8E","U+13BE">>, <<"U+AB8F","U+13BF">>, <<"U+AB90","U+13C0">>,
    <<"U+AB91","U+13C1">>, <<"U+AB92","U+13C2">>, <<"U+AB93","U+13C3">>, <<"U+AB94","U+13C4">>,
    <<"U+AB95","U+13C5">>, <<"U+AB96","U+13C6">>, <<"U+AB97","U+13C7">>, <<"U+AB98","U+13C8">>,
    <<"U+AB99","U+13C9">>, <<"U+AB9A","U+13CA">>, <<"U+AB9B","U+13CB">>, <<"U+AB9C","U+13CC">>,
    <<"U+AB9D","U+13CD">>, <<"U+AB9E","U+13CE">>, <<"U+AB9F","U+13CF">>, <<"U+ABA0","U+13D0">>,
    <<"U+ABA1","U+13D1">>, <<"U+ABA2","U+13D2">>, <<"U+ABA3","U+13D3">>, <<"U+ABA4","U+13D4">>,
    <<"U+ABA5","U+13D5">>, <<"U+ABA6","U+13D6">>, <<"U+ABA7","U+13D7">>, <<"U+ABA8","U+13D8">>,
    <<"U+ABA9","U+13D9">>, <<"U+ABAA","U+13DA">>, <<"U+ABAB","U+13DB">>, <<"U+ABAC","U+13DC">>,
    <<"U+ABAD","U+13DD">>, <<"U+ABAE","U+13DE">>, <<"U+ABAF","U+13DF">>, <<"U+ABB0","U+13E0">>,
    <<"U+ABB1","U+13E1">>, <<"U+ABB2","U+13E2">>, <<"U+ABB3","U+13E3">>, <<"U+ABB4","U+13E4">>,
    <<"U+ABB5","U+13E5">>, <<"U+ABB6","U+13E6">>, <<"U+ABB7","U+13E7">>, <<"U+ABB8","U+13E8">>,
    <<"U+ABB9","U+13E9">>, <<"U+ABBA","U+13EA">>, <<"U+ABBB","U+13EB">>, <<"U+ABBC","U+13EC">>,
    <<"U+ABBD","U+13ED">>, <<"U+ABBE","U+13EE">>, <<"U+ABBF","U+13EF">>, <<"U+FB00","F","F">>,
    <<"U+FB01","F","I">>, <<"U+FB02","F","L">>, <<"U+FB03","F","F","I">>,
    <<"U+FB04","F","F","L">>, <<"U+FB05","S","T">>, <<"U+FB06","S","T">>,
    <<"U+FB13","U+0544","U+0546">>, <<"U+FB14","U+0544","U+0535">>,
    <<"U+FB15","U+0544","U+053B">>, <<"U+FB16","U+054E","U+0546">>,
    <<"U+FB17","U+0544","U+053D">>, <<"U+FF41","U+FF21">>, <<"U+FF42","U+FF22">>,
    <<"U+FF43","U+FF23">>, <<"U+FF44","U+FF24">>, <<"U+FF45","U+FF25">>, <<"U+FF46","U+FF26">>,
    <<"U+FF47","U+FF27">>, <<"U+FF48","U+FF28">>, <<"U+FF49","U+FF29">>, <<"U+FF4A","U+FF2A">>,
    <<"U+FF4B","U+FF2B">>, <<"U+FF4C","U+FF2C">>, <<"U+FF4D","U+FF2D">>, <<"U+FF4E","U+FF2E">>,
    <<"U+FF4F","U+FF2F">>, <<"U+FF50","U+FF30">>, <<"U+FF51","U+FF31">>, <<"U+FF52","U+FF32">>,
    <<"U+FF53","U+FF33">>, <<"U+FF54","U+FF34">>, <<"U+FF55","U+FF35">>, <<"U+FF56","U+FF36">>,
    <<"U+FF57","U+FF37">>, <<"U+FF58","U+FF38">>, <<"U+FF59","U+FF39">>, <<"U+FF5A","U+FF3A">> >>

\* the same for the characters outside the basic plane: the pair, followed
\* by the pair it becomes
UpperPairRows == <<
    <<"U+D801","U+DC28","U+D801","U+DC00">>, <<"U+D801","U+DC29","U+D801","U+DC01">>,
    <<"U+D801","U+DC2A","U+D801","U+DC02">>, <<"U+D801","U+DC2B","U+D801","U+DC03">>,
    <<"U+D801","U+DC2C","U+D801","U+DC04">>, <<"U+D801","U+DC2D","U+D801","U+DC05">>,
    <<"U+D801","U+DC2E","U+D801","U+DC06">>, <<"U+D801","U+DC2F","U+D801","U+DC07">>,
    <<"U+D801","U+DC30","U+D801","U+DC08">>, <<"U+D801","U+DC31","U+D801","U+DC09">>,
    <<"U+D801","U+DC32","U+D801","U+DC0A">>, <<"U+D801","U+DC33","U+D801","U+DC0B">>,
    <<"U+D801","U+DC34","U+D801","U+DC0C">>, <<"U+D801","U+DC35","U+D801","U+DC0D">>,
    <<"U+D801","U+DC36","U+D801","U+DC0E">>, <<"U+D801","U+DC37","U+D801","U+DC0F">>,
    <<"U+D801","U+DC38","U+D801","U+DC10">>, <<"U+D801","U+DC39","U+D801","U+DC11">>,
    <<"U+D801","U+DC3A","U+D801","U+DC12">>, <<"U+D801","U+DC3B","U+D801","U+DC13">>,
    <<"U+D801","U+DC3C","U+D801","U+DC14">>, <<"U+D801","U+DC3D","U+D801","U+DC15">>,
    <<"U+D801","U+DC3E","U+D801","U+DC16">>, <<"U+D801","U+DC3F","U+D801","U+DC17">>,
    <<"U+D801","U+DC40","U+D801","U+DC18">>, <<"U+D801","U+DC41","U+D801","U+DC19">>,
    <<"U+D801","U+DC42","U+D801","U+DC1A">>, <<"U+D801","U+DC43","U+D801","U+DC1B">>,
    <<"U+D801","U+DC44","U+D801","U+DC1C">>, <<"U+D801","U+DC45","U+D801","U+DC1D">>,
    <<"U+D801","U+DC46","U+D801","U+DC1E">>, <<"U+D801","U+DC47","U+D801","U+DC1F">>,
    <<"U+D801","U+DC48","U+D801","U+DC20">>, <<"U+D801","U+DC49","U+D801","U+DC21">>,
    <<"U+D801","U+DC4A","U+D801","U+DC22">>, <<"U+D801","U+DC4B","U+D801","U+DC23">>,
    <<"U+D801","U+DC4C","U+D801","U+DC24">>, <<"U+D801","U+DC4D","U+D801","U+DC25">>,
    <<"U+D801","U+DC4E","U+D801","U+DC26">>, <<"U+D801","U+DC4F","U+D801","U+DC27">>,
    <<"U+D801","U+DCD8","U+D801","U+DCB0">>, <<"U+D801","U+DCD9","U+D801","U+DCB1">>,
    <<"U+D801","U+DCDA","U+D801","U+DCB2">>, <<"U+D801","U+DCDB","U+D801","U+DCB3">>,
    <<"U+D801","U+DCDC","U+D801","U+DCB4">>, <<"U+D801","U+DCDD","U+D801","U+DCB5">>,
    <<"U+D801","U+DCDE","U+D801","U+DCB6">>, <<"U+D801","U+DCDF","U+D801","U+DCB7">>,
    <<"U+D801","U+DCE0","U+D801","U+DCB8">>, <<"U+D801","U+DCE1","U+D801","U+DCB9">>,
    <<"U+D801","U+DCE2","U+D801","U+DCBA">>, <<"U+D801","U+DCE3","U+D801","U+DCBB">>,
    <<"U+D801","U+DCE4","U+D801","U+DCBC">>, <<"U+D801","U+DCE5","U+D801","U+DCBD">>,
    <<"U+D801","U+DCE6","U+D801","U+DCBE">>, <<"U+D801","U+DCE7","U+D801","U+DCBF">>,
    <<"U+D801","U+DCE8","U+D801","U+DCC0">>, <<"U+D801","U+DCE9","U+D801","U+DCC1">>,
    <<"U+D801","U+DCEA","U+D801","U+DCC2">>, <<"U+D801","U+DCEB","U+D801","U+DCC3">>,
    <<"U+D801","U+DCEC","U+D801","U+DCC4">>, <<"U+D801","U+DCED","U+D801","U+DCC5">>,
    <<"U+D801","U+DCEE","U+D801","U+DCC6">>, <<"U+D801","U+DCEF","U+D801","U+DCC7">>,
    <<"U+D801","U+DCF0","U+D801","U+DCC8">>, <<"U+D801","U+DCF1","U+D801","U+DCC9">>,
    <<"U+D801","U+DCF2","U+D801","U+DCCA">>, <<"U+D801","U+DCF3","U+D801","U+DCCB">>,
    <<"U+D801","U+DCF4","U+D801","U+DCCC">>, <<"U+D801","U+DCF5","U+D801","U+DCCD">>,
    <<"U+D801","U+DCF6","U+D801","U+DCCE">>, <<"U+D801","U+DCF7","U+D801","U+DCCF">>,
    <<"U+D801","U+DCF8","U+D801","U+DCD0">>, <<"U+D801","U+DCF9","U+D801","U+DCD1">>,
    <<"U+D801","U+DCFA","U+D801","U+DCD2">>, <<"U+D801","U+DCFB","U+D801","U+DCD3">>,
    <<"U+D801","U+DD97","U+D801","U+DD70">>, <<"U+D801","U+DD98","U+D801","U+DD71">>,
    <<"U+D801","U+DD99","U+D801","U+DD72">>, <<"U+D801","U+DD9A","U+D801","U+DD73">>,
    <<"U+D801","U+DD9B","U+D801","U+DD74">>, <<"U+D801","U+DD9C","U+D801","U+DD75">>,
    <<"U+D801","U+DD9D","U+D801","U+DD76">>, <<"U+D801","U+DD9E","U+D801","U+DD77">>,
    <<"U+D801","U+DD9F","U+D801","U+DD78">>, <<"U+D801","U+DDA0","U+D801","U+DD79">>,
    <<"U+D801","U+DDA1","U+D801","U+DD7A">>, <<"U+D801","U+DDA3","U+D801","U+DD7C">>,
    <<"U+D801","U+DDA4","U+D801","U+DD7D">>, <<"U+D801","U+DDA5","U+D801","U+DD7E">>,
    <<"U+D801","U+DDA6","U+D801","U+DD7F">>, <<"U+D801","U+DDA7","U+D801","U+DD80">>,
    <<"U+D801","U+DDA8","U+D801","U+DD81">>, <<"U+D801","U+DDA9","U+D801","U+DD82">>,
    <<"U+D801","U+DDAA","U+D801","U+DD83">>, <<"U+D801","U+DDAB","U+D801","U+DD84">>,
    <<"U+D801","U+DDAC","U+D801","U+DD85">>, <<"U+D801","U+DDAD","U+D801","U+DD86">>,
    <<"U+D801","U+DDAE","U+D801","U+DD87">>, <<"U+D801","U+DDAF","U+D801","U+DD88">>,
    <<"U+D801","U+DDB0","U+D801","U+DD89">>, <<"U+D801","U+DDB1","U+D801","U+DD8A">>,
    <<"U+D801","U+DDB3","U+D801","U+DD8C">>, <<"U+D801","U+DDB4","U+D801","U+DD8D">>,
    <<"U+D801","U+DDB5","U+D801","U+DD8E">>, <<"U+D801","U+DDB6","U+D801","U+DD8F">>,
    <<"U+D801","U+DDB7","U+D801","U+DD90">>, <<"U+D801","U+DDB8","U+D801","U+DD91">>,
    <<"U+D801","U+DDB9","U+D801","U+DD92">>, <<"U+D801","U+DDBB","U+D801","U+DD94">>,
    <<"U+D801","U+DDBC","U+D801","U+DD95">>, <<"U+D803","U+DCC0","U+D803","U+DC80">>,
    <<"U+D803","U+DCC1","U+D803","U+DC81">>, <<"U+D803","U+DCC2","U+D803","U+DC82">>,
    <<"U+D803","U+DCC3","U+D803","U+DC83">>, <<"U+D803","U+DCC4","U+D803","U+DC84">>,
    <<"U+D803","U+DCC5","U+D803","U+DC85">>, <<"U+D803","U+DCC6","U+D803","U+DC86">>,
    <<"U+D803","U+DCC7","U+D803","U+DC87">>, <<"U+D803","U+DCC8","U+D803","U+DC88">>,
    <<"U+D803","U+DCC9","U+D803","U+DC89">>, <<"U+D803","U+DCCA","U+D803","U+DC8A">>,
    <<"U+D803","U+DCCB","U+D803","U+DC8B">>, <<"U+D803","U+DCCC","U+D803","U+DC8C">>,
    <<"U+D803","U+DCCD","U+D803","U+DC8D">>, <<"U+D803","U+DCCE","U+D803","U+DC8E">>,
    <<"U+D803","U+DCCF","U+D803","U+DC8F">>, <<"U+D803","U+DCD0","U+D803","U+DC90">>,
    <<"U+D803","U+DCD1","U+D803","U+DC91">>, <<"U+D803","U+DCD2","U+D803","U+DC92">>,
    <<"U+D803","U+DCD3","U+D803","U+DC93">>, <<"U+D803","U+DCD4","U+D803","U+DC94">>,
    <<"U+D803","U+DCD5","U+D803","U+DC95">>, <<"U+D803","U+DCD6","U+D803","U+DC96">>,
    <<"U+D803","U+DCD7","U+D803","U+DC97">>, <<"U+D803","U+DCD8","U+D803","U+DC98">>,
    <<"U+D803","U+DCD9","U+D803","U+DC99">>, <<"U+D803","U+DCDA","U+D803","U+DC9A">>,
    <<"U+D803","U+DCDB","U+D803","U+DC9B">>, <<"U+D803","U+DCDC","U+D803","U+DC9C">>,
    <<"U+D803","U+DCDD","U+D803","U+DC9D">>, <<"U+D803","U+DCDE","U+D803","U+DC9E">>,
    <<"U+D803","U+DCDF","U+D803","U+DC9F">>, <<"U+D803","U+DCE0","U+D803","U+DCA0">>,
    <<"U+D803","U+DCE1","U+D803","U+DCA1">>, <<"U+D803","U+DCE2","U+D803","U+DCA2">>,
    <<"U+D803","U+DCE3","U+D803","U+DCA3">>, <<"U+D803","U+DCE4","U+D803","U+DCA4">>,
    <<"U+D803","U+DCE5","U+D803","U+DCA5">>, <<"U+D803","U+DCE6","U+D803","U+DCA6">>,
    <<"U+D803","U+DCE7","U+D803","U+DCA7">>, <<"U+D803","U+DCE8","U+D803","U+DCA8">>,
    <<"U+D803","U+DCE9","U+D803","U+DCA9">>, <<"U+D803","U+DCEA","U+D803","U+DCAA">>,
    <<"U+D803","U+DCEB","U+D803","U+DCAB">>, <<"U+D803","U+DCEC","U+D803","U+DCAC">>,
    <<"U+D803","U+DCED","U+D803","U+DCAD">>, <<"U+D803","U+DCEE","U+D803","U+DCAE">>,
    <<"U+D803","U+DCEF","U+D803","U+DCAF">>, <<"U+D803","U+DCF0","U+D803","U+DCB0">>,
    <<"U+D803","U+DCF1","U+D803","U+DCB1">>, <<"U+D803","U+DCF2","U+D803","U+DCB2">>,
    <<"U+D803","U+DD70","U+D803","U+DD50">>, <<"U+D803","U+DD71","U+D803","U+DD51">>,
    <<"U+D803","U+DD72","U+D803","U+DD52">>, <<"U+D803","U+DD73","U+D803","U+DD53">>,
    <<"U+D803","U+DD74","U+D803","U+DD54">>, <<"U+D803","U+DD75","U+D803","U+DD55">>,
    <<"U+D803","U+DD76","U+D803","U+DD56">>, <<"U+D803","U+DD77","U+D803","U+DD57">>,
    <<"U+D803","U+DD78","U+D803","U+DD58">>, <<"U+D803","U+DD79","U+D803","U+DD59">>,
    <<"U+D803","U+DD7A","U+D803","U+DD5A">>, <<"U+D803","U+DD7B","U+D803","U+DD5B">>,
    <<"U+D803","U+DD7C","U+D803","U+DD5C">>, <<"U+D803","U+DD7D","U+D803","U+DD5D">>,
    <<"U+D803","U+DD7E","U+D803","U+DD5E">>, <<"U+D803","U+DD7F","U+D803","U+DD5F">>,
    <<"U+D803","U+DD80","U+D803","U+DD60">>, <<"U+D803","U+DD81","U+D803","U+DD61">>,
    <<"U+D803","U+DD82","U+D803","U+DD62">>, <<"U+D803","U+DD83","U+D803","U+DD63">>,
    <<"U+D803","U+DD84","U+D803","U+DD64">>, <<"U+D803","U+DD85","U+D803","U+DD65">>,
    <<"U+D806","U+DCC0","U+D806","U+DCA0">>, <<"U+D806","U+DCC1","U+D806","U+DCA1">>,
    <<"U+D806","U+DCC2","U+D806","U+DCA2">>, <<"U+D806","U+DCC3","U+D806","U+DCA3">>,
    <<"U+D806","U+DCC4","U+D806","U+DCA4">>, <<"U+D806","U+DCC5","U+D806","U+DCA5">>,
    <<"U+D806","U+DCC6","U+D806","U+DCA6">>, <<"U+D806","U+DCC7","U+D806","U+DCA7">>,
    <<"U+D806","U+DCC8","U+D806","U+DCA8">>, <<"U+D806","U+DCC9","U+D806","U+DCA9">>,
    <<"U+D806","U+DCCA","U+D806","U+DCAA">>, <<"U+D806","U+DCCB","U+D806","U+DCAB">>,
    <<"U+D806","U+DCCC","U+D806","U+DCAC">>, <<"U+D806","U+DCCD","U+D806","U+DCAD">>,
    <<"U+D806","U+DCCE","U+D806","U+DCAE">>, <<"U+D806","U+DCCF","U+D806","U+DCAF">>,
    <<"U+D806","U+DCD0","U+D806","U+DCB0">>, <<"U+D806","U+DCD1","U+D806","U+DCB1">>,
    <<"U+D806","U+DCD2","U+D806","U+DCB2">>, <<"U+D806","U+DCD3","U+D806","U+DCB3">>,
    <<"U+D806","U+DCD4","U+D806","U+DCB4">>, <<"U+D806","U+DCD5","U+D806","U+DCB5">>,
    <<"U+D806","U+DCD6","U+D806","U+DCB6">>, <<"U+D806","U+DCD7","U+D806","U+DCB7">>,
    <<"U+D806","U+DCD8","U+D806","U+DCB8">>, <<"U+D806","U+DCD9","U+D806","U+DCB9">>,
    <<"U+D806","U+DCDA","U+D806","U+DCBA">>, <<"U+D806","U+DCDB","U+D806","U+DCBB">>,
    <<"U+D806","U+DCDC","U+D806","U+DCBC">>, <<"U+D806","U+DCDD","U+D806","U+DCBD">>,
    <<"U+D806","U+DCDE","U+D806","U+DCBE">>, <<"U+D806","U+DCDF","U+D806","U+DCBF">>,
    <<"U+D81B","U+DE60","U+D81B","U+DE40">>, <<"U+D81B","U+DE61","U+D81B","U+DE41">>,
    <<"U+D81B","U+DE62","U+D81B","U+DE42">>, <<"U+D81B","U+DE63","U+D81B","U+DE43">>,
    <<"U+D81B","U+DE64","U+D81B","U+DE44">>, <<"U+D81B","U+DE65","U+D81B","U+DE45">>,
    <<"U+D81B","U+DE66","U+D81B","U+DE46">>, <<"U+D81B","U+DE67","U+D81B","U+DE47">>,
    <<"U+D81B","U+DE68","U+D81B","U+DE48">>, <<"U+D81B","U+DE69","U+D81B","U+DE49">>,
    <<"U+D81B","U+DE6A","U+D81B","U+DE4A">>, <<"U+D81B","U+DE6B","U+D81B","U+DE4B">>,
    <<"U+D81B","U+DE6C","U+D81B","U+DE4C">>, <<"U+D81B","U+DE6D","U+D81B","U+DE4D">>,
    <<"U+D81B","U+DE6E","U+D81B","U+DE4E">>, <<"U+D81B","U+DE6F","U+D81B","U+DE4F">>,
    <<"U+D81B","U+DE70","U+D81B","U+DE50">>, <<"U+D81B","U+DE71","U+D81B","U+DE51">>,
    <<"U+D81B","U+DE72","U+D81B","U+DE52">>, <<"U+D81B","U+DE73","U+D81B","U+DE53">>,
    <<"U+D81B","U+DE74","U+D81B","U+DE54">>, <<"U+D81B","U+DE75","U+D81B","U+DE55">>,
    <<"U+D81B","U+DE76","U+D81B","U+DE56">>, <<"U+D81B","U+DE77","U+D81B","U+DE57">>,
    <<"U+D81B","U+DE78","U+D81B","U+DE58">>, <<"U+D81B","U+DE79","U+D81B","U+DE59">>,
    <<"U+D81B","U+DE7A","U+D81B","U+DE5A">>, <<"U+D81B","U+DE7B","U+D81B","U+DE5B">>,
    <<"U+D81B","U+DE7C","U+D81B","U+DE5C">>, <<"U+D81B","U+DE7D","U+D81B","U+DE5D">>,
    <<"U+D81B","U+DE7E","U+D81B","U+DE5E">>, <<"U+D81B","U+DE7F","U+D81B","U+DE5F">>,
    <<"U+D81B","U+DEBB","U+D81B","U+DEA0">>, <<"U+D81B","U+DEBC","U+D81B","U+DEA1">>,
    <<"U+D81B","U+DEBD","U+D81B","U+DEA2">>, <<"U+D81B","U+DEBE","U+D81B","U+DEA3">>,
    <<"U+D81B","U+DEBF","U+D81B","U+DEA4">>, <<"U+D81B","U+DEC0","U+D81B","U+DEA5">>,
    <<"U+D81B","U+DEC1","U+D81B","U+DEA6">>, <<"U+D81B","U+DEC2","U+D81B","U+DEA7">>,
    <<"U+D81B","U+DEC3","U+D81B","U+DEA8">>, <<"U+D81B","U+DEC4","U+D81B","U+DEA9">>,
    <<"U+D81B","U+DEC5","U+D81B","U+DEAA">>, <<"U+D81B","U+DEC6","U+D81B","U+DEAB">>,
    <<"U+D81B","U+DEC7","U+D81B","U+DEAC">>, <<"U+D81B","U+DEC8","U+D81B","U+DEAD">>,
    <<"U+D81B","U+DEC9","U+D81B","U+DEAE">>, <<"U+D81B","U+DECA","U+D81B","U+DEAF">>,
    <<"U+D81B","U+DECB","U+D81B","U+DEB0">>, <<"U+D81B","U+DECC","U+D81B","U+DEB1">>,
    <<"U+D81B","U+DECD","U+D81B","U+DEB2">>, <<"U+D81B","U+DECE","U+D81B","U+DEB3">>,
    <<"U+D81B","U+DECF","U+D81B","U+DEB4">>, <<"U+D81B","U+DED0","U+D81B","U+DEB5">>,
    <<"U+D81B","U+DED1","U+D81B","U+DEB6">>, <<"U+D81B","U+DED2","U+D81B","U+DEB7">>,
    <<"U+D81B","U+DED3","U+D81B","U+DEB8">>, <<"U+D83A","U+DD22","U+D83A","U+DD00">>,
    <<"U+D83A","U+DD23","U+D83A","U+DD01">>, <<"U+D83A","U+DD24","U+D83A","U+DD02">>,
    <<"U+D83A","U+DD25","U+D83A","U+DD03">>, <<"U+D83A","U+DD26","U+D83A","U+DD04">>,
    <<"U+D83A","U+DD27","U+D83A","U+DD05">>, <<"U+D83A","U+DD28","U+D83A","U+DD06">>,
    <<"U+D83A","U+DD29","U+D83A","U+DD07">>, <<"U+D83A","U+DD2A","U+D83A","U+DD08">>,
    <<"U+D83A","U+DD2B","U+D83A","U+DD09">>, <<"U+D83A","U+DD2C","U+D83A","U+DD0A">>,
    <<"U+D83A","U+DD2D","U+D83A","U+DD0B">>, <<"U+D83A","U+DD2E","U+D83A","U+DD0C">>,
    <<"U+D83A","U+DD2F","U+D83A","U+DD0D">>, <<"U+D83A","U+DD30","U+D83A","U+DD0E">>,
    <<"U+D83A","U+DD31","U+D83A","U+DD0F">>, <<"U+D83A","U+DD32","U+D83A","U+DD10">>,
    <<"U+D83A","U+DD33","U+D83A","U+DD11">>, <<"U+D83A","U+DD34","U+D83A","U+DD12">>,
    <<"U+D83A","U+DD35","U+D83A","U+DD13">>, <<"U+D83A","U+DD36","U+D83A","U+DD14">>,
    <<"U+D83A","U+DD37","U+D83A","U+DD15">>, <<"U+D83A","U+DD38","U+D83A","U+DD16">>,
    <<"U+D83A","U+DD39","U+D83A","U+DD17">>, <<"U+D83A","U+DD3A","U+D83A","U+DD18">>,
    <<"U+D83A","U+DD3B","U+D83A","U+DD19">>, <<"U+D83A","U+DD3C","U+D83A","U+DD1A">>,
    <<"U+D83A","U+DD3D","U+D83A","U+DD1B">>, <<"U+D83A","U+DD3E","U+D83A","U+DD1C">>,
    <<"U+D83A","U+DD3F","U+D83A","U+DD1D">>, <<"U+D83A","U+DD40","U+D83A","U+DD1E">>,
    <<"U+D83A","U+DD41","U+D83A","U+DD1F">>, <<"U+D83A","U+DD42","U+D83A","U+DD20">>,
    <<"U+D83A","U+DD43","U+D83A","U+DD21">> >>

\* the rows as a function of their first character
UpperOfOther ==
    [c \in {UpperRows[i][1] : i \in DOMAIN UpperRows} |->
        Tail(UpperRows[CHOOSE i \in DOMAIN UpperRows : UpperRows[i][1] = c])]

\* c.toUpperCase() for one code unit c: a text of one to three characters
ToUpperChar(c) ==
    IF c \in DOMAIN UpperOf THEN <<UpperOf[c]>>
    ELSE IF c \in DOMAIN UpperOfOther THEN UpperOfOther[c]
    ELSE <<c>>

\* the upper case of the surrogate pair h, l
ToUpperPair(h, l) ==
    IF \E i \in DOMAIN UpperPairRows : UpperPairRows[i][1] = h /\ UpperPairRows[i][2] = l
    THEN LET r == UpperPairRows[CHOOSE i \in DOMAIN UpperPairRows :
                                    UpperPairRows[i][1] = h /\ UpperPairRows[i][2] = l]
         IN  <<r[3], r[4]>>
    ELSE <<h, l>>

\* what s.toUpperCase() holds for position i of s: the upper case of the
\* pair that starts there, nothing for the second half of a pair, the upper
\* case of any other code unit
ToUpperAt(s, i) ==
    IF PairAt(s, i) THEN ToUpperPair(s[i], s[i + 1])
    ELSE IF PairAt(s, i - 1) THEN <<>>
    ELSE ToUpperChar(s[i])

\* the upper case of the positions lo..hi of s, in order
RECURSIVE toUpperCaseSpan(_, _, _)
toUpperCaseSpan(s, lo, hi) ==
    IF lo > hi THEN <<>>
    ELSE IF lo = hi THEN ToUpperAt(s, lo)
    ELSE LET mid == (lo + hi) \div 2
         IN  toUpperCaseSpan(s, lo, mid) \o toUpperCaseSpan(s, mid + 1, hi)

\* String.prototype.toUpperCase
toUpperCase(s) == toUpperCaseSpan(s, 1, Len(s))

\* how a regular expression with flag i and without flag u compares a code
\* unit: by its upper case, unless that is more than one character or an
\* ASCII character for a character outside ASCII
Canonicalize(c) ==
    LET u == ToUpperChar(c)
    IN  IF Len(u) # 1 THEN c
        ELSE IF c \notin AsciiChars /\ u[1] \in AsciiChars THEN c
        ELSE u[1]

\* the regular-expression class \s, which is also what trim() strips: tab,
\* line feed, vertical tab, form feed, carriage return, space, no-break
\* space, U+1680, U+2000 to U+200A, the line and paragraph separators,
\* U+202F, U+205F, U+3000 and the byte order mark
IsSpace(c) ==
    c \in {"\t", "\n", "U+000B", "\f", "\r", " ", "U+00A0", "U+1680",
           "U+2000", "U+2001", "U+2002", "U+2003", "U+2004", "U+2005", "U+2006",
           "U+2007", "U+2008", "U+2009", "U+200A", "U+2028", "U+2029", "U+202F",
           "U+205F", "U+3000", "U+FEFF"}

\* the regular-expression class \d
DigitSet == Range(DigitChars)
IsDigit(c) == c \in DigitSet

\* the regular-expression class \w
WordCharSet == Range(LowerLetters) \cup Range(UpperLetters) \cup DigitSet \cup {"_"}
IsWordChar(c) == c \in WordCharSet

(***************************************************************************)
(* String primitives                                                       *)
(***************************************************************************)
\* s.slice(from-1, to) with 1-based inclusive bounds
Sub(s, from, to) == IF from > to THEN <<>> ELSE SubSeq(s, from, to)

\* String.prototype.trim
trim(s) ==
    IF \A i \in 1..Len(s) : IsSpace(s[i]) THEN <<>>
    ELSE LET first == CHOOSE i \in 1..Len(s) :
                          ~IsSpace(s[i]) /\ \A j \in 1..(i-1) : IsSpace(s[j])
             last  == CHOOSE i \in 1..Len(s) :
                          ~IsSpace(s[i]) /\ \A j \in (i+1)..Len(s) : IsSpace(s[j])
         IN  SubSeq(s, first, last)

\* the literal word w occurs in s at 1-based position i
MatchAt(s, i, w) ==
    /\ i >= 1
    /\ i + Len(w) - 1 <= Len(s)
    /\ \A k \in 1..Len(w) : s[i + k - 1] = w[k]

\* the same under the regular-expression flag i
MatchAtCI(s, i, w) ==
    /\ i >= 1
    /\ i + Len(w) - 1 <= Len(s)
    /\ \A k \in 1..Len(w) : Canonicalize(s[i + k - 1]) = Canonicalize(w[k])

\* String.prototype.indexOf(c) for a single character, 1-based; 0 when absent
\* (the source's index + 1, the source's -1 being 0 here)
indexOf(s, c) ==
    IF \E i \in 1..Len(s) : s[i] = c
    THEN CHOOSE i \in 1..Len(s) : s[i] = c /\ \A j \in 1..(i-1) : s[j] # c
    ELSE 0

\* String.prototype.lastIndexOf(c) for a single character, 1-based; 0 when
\* absent (the source's index + 1, the source's -1 being 0 here)
lastIndexOf(s, c) ==
    LET at == {i \in 1..Len(s) : s[i] = c}
    IN  IF at = {} THEN 0 ELSE CHOOSE i \in at : \A j \in at : j <= i

\* s.slice(0, end) with the source's 0-based, possibly negative end
sliceTo(s, end) ==
    LET e == IF end < 0 THEN (IF Len(s) + end < 0 THEN 0 ELSE Len(s) + end)
             ELSE (IF end > Len(s) THEN Len(s) ELSE end)
    IN  Sub(s, 1, e)

\* String.prototype.includes(c) for a single character
includes(s, c) == \E i \in 1..Len(s) : s[i] = c

\* the regular-expression assertion \b between positions i-1 and i of s
\* (i ranges over 1..Len(s)+1)
WordBoundary(s, i) ==
    LET before == i > 1 /\ IsWordChar(s[i-1])
        after  == i <= Len(s) /\ IsWordChar(s[i])
    IN  before # after

\* new RegExp(`\\b${w}\\b`).test(s)
TestWholeWord(s, w) ==
    \E i \in 1..Len(s) :
        /\ MatchAt(s, i, w)
        /\ WordBoundary(s, i)
        /\ WordBoundary(s, i + Len(w))

\* all concatenations of at most n fragments of F
RECURSIVE ConcatUpTo(_, _)
ConcatUpTo(F, n) ==
    IF n = 0 THEN {<<>>}
    ELSE LET shorter == ConcatUpTo(F, n - 1)
         IN  shorter \cup {t \o f : t \in shorter, f \in F}

\* Number -> decimal text, as a template literal `${n}` renders an integer
RECURSIVE NumToStr(_)
NumToStr(n) ==
    IF n < 0 THEN <<"-">> \o NumToStr(0 - n)
    ELSE IF n < 10 THEN <<DigitChars[n + 1]>>
    ELSE NumToStr(n \div 10) \o <<DigitChars[(n % 10) + 1]>>

(***************************************************************************)
(* guard/sql-guard.ts                                                      *)
(***************************************************************************)
kSELECT == <<"S","E","L","E","C","T">>
kWITH   == <<"W","I","T","H">>
kLIMIT  == <<"L","I","M","I","T">>

BLOCKED_KEYWORDS == <<
    [name |-> "INSERT",   chars |-> <<"I","N","S","E","R","T">>],
    [name |-> "UPDATE",   chars |-> <<"U","P","D","A","T","E">>],
    [name |-> "DELETE",   chars |-> <<"D","E","L","E","T","E">>],
    [name |-> "DROP",     chars |-> <<"D","R","O","P">>],
    [name |-> "ALTER",    chars |-> <<"A","L","T","E","R">>],
    [name |-> "TRUNCATE", chars |-> <<"T","R","U","N","C","A","T","E">>],
    [name |-> "CREATE",   chars |-> <<"C","R","E","A","T","E">>],
    [name |-> "GRANT",    chars |-> <<"G","R","A","N","T">>],
    [name |-> "REVOKE",   chars |-> <<"R","E","V","O","K","E">>],
    [name |-> "EXEC",     chars |-> <<"E","X","E","C">>],
    [name |-> "EXECUTE",  chars |-> <<"E","X","E","C","U","T","E">>],
    [name |-> "COPY",     chars |-> <<"C","O","P","Y">>] >>

\* the test without its anchor: /(SELECT|WITH)\s/i.test(trimmed)
StartsWithReadKeyword_Unanchored(trimmed) ==
    \E i \in 1..Len(trimmed) :
        \/ MatchAtCI(trimmed, i, kSELECT) /\ Len(trimmed) >= i + 6 /\ IsSpace(trimmed[i + 6])
        \/ MatchAtCI(trimmed, i, kWITH)   /\ Len(trimmed) >= i + 4 /\ IsSpace(trimmed[i + 4])

\* /^(SELECT|WITH)\s/i.test(trimmed)
StartsWithReadKeyword(trimmed) ==
    \/ MatchAtCI(trimmed, 1, kSELECT) /\ Len(trimmed) >= 7 /\ IsSpace(trimmed[7])
    \/ MatchAtCI(trimmed, 1, kWITH)   /\ Len(trimmed) >= 5 /\ IsSpace(trimmed[5])

\* position of the first ' at or after `from`, 0 when there is none
NextQuote(s, from) ==
    IF \E j \in from..Len(s) : s[j] = "'"
    THEN CHOOSE j \in from..Len(s) :
             s[j] = "'" /\ \A k \in from..(j-1) : s[k] # "'"
    ELSE 0

\* trimmed.replace(/'[^']*'/g, "''") from position i on: every span that
\* opens with a quote and closes with the next quote becomes '', a last
\* quote without a partner is kept with the text after it
RECURSIVE ReplaceLiteralsFrom(_, _)
ReplaceLiteralsFrom(s, i) ==
    IF i > Len(s) THEN <<>>
    ELSE IF s[i] = "'" /\ NextQuote(s, i + 1) # 0
         THEN <<"'", "'">> \o ReplaceLiteralsFrom(s, NextQuote(s, i + 1) + 1)
         ELSE <<s[i]>> \o ReplaceLiteralsFrom(s, i + 1)

\* the literals left in place
withoutStrings_Kept(trimmed) == trimmed

withoutStrings(trimmed) == ReplaceLiteralsFrom(trimmed, 1)

\* the comparison off by one: indexOf(";") < length - 2
HasEarlySemicolon_OffByOne(ws) == includes(ws, ";") /\ indexOf(ws, ";") < Len(ws) - 1

\* withoutStrings.includes(";") && withoutStrings.indexOf(";") < length - 1
\* (indexOf is 1-based here, so the comparison is with Len)
HasEarlySemicolon(ws) == includes(ws, ";") /\ indexOf(ws, ";") < Len(ws)

\* the for loop over BLOCKED_KEYWORDS: index of the first keyword of the
\* list that occurs as a whole word in upper, 0 when none does
FirstBlockedKeyword(upper) ==
    IF \E k \in 1..Len(BLOCKED_KEYWORDS) :
           TestWholeWord(upper, BLOCKED_KEYWORDS[k].chars)
    THEN CHOOSE k \in 1..Len(BLOCKED_KEYWORDS) :
             /\ TestWholeWord(upper, BLOCKED_KEYWORDS[k].chars)
             /\ \A j \in 1..(k-1) : ~TestWholeWord(upper, BLOCKED_KEYWORDS[j].chars)
    ELSE 0

ErrOnlySelect == <<"Only SELECT queries are allowed.">>
ErrMultiple   == <<"Multiple statements are not allowed.">>
\* `${keyword} operations are not allowed.` as its two parts
ErrKeyword(k) == <<BLOCKED_KEYWORDS[k].name, " operations are not allowed.">>

\* validateSQL(sql, { allowWrites }); allowWrites is "unset", "false" or
\* "true" (undefined, false and true in the source).
\* The result is [valid |-> TRUE] or [valid |-> FALSE, error |-> parts].
validateSQL(sql, allowWrites) ==
    IF allowWrites = "true" THEN [valid |-> TRUE]
    ELSE LET trimmed == trim(sql)
             ws      == withoutStrings(trimmed)
             upper   == toUpperCase(ws)
             kw      == FirstBlockedKeyword(upper)
         IN  IF ~StartsWithReadKeyword(trimmed)
             THEN [valid |-> FALSE, error |-> ErrOnlySelect]
             ELSE IF HasEarlySemicolon(ws)
             THEN [valid |-> FALSE, error |-> ErrMultiple]
             ELSE IF kw # 0
             THEN [valid |-> FALSE, error |-> ErrKeyword(kw)]
             ELSE [valid |-> TRUE]

\* sql.trim().replace(/;$/, "")
StripTrailingSemicolon(t) ==
    IF Len(t) > 0 /\ t[Len(t)] = ";" THEN Sub(t, 1, Len(t) - 1) ELSE t

\* /\bLIMIT\s+\d+/i.test(s)
HasLimit(s) ==
    \E i \in 1..Len(s) :
        /\ MatchAtCI(s, i, kLIMIT)
        /\ WordBoundary(s, i)
        /\ \E j \in (i + 6)..Len(s) :
               /\ IsDigit(s[j])
               /\ \A k \in (i + 5)..(j - 1) : IsSpace(s[k])

\* ensureLimit(sql, maxRows)
ensureLimit(sql, maxRows) ==
    LET trimmed == StripTrailingSemicolon(trim(sql))
    IN  IF ~HasLimit(trimmed)
        THEN trimmed \o <<" ">> \o kLIMIT \o <<" ">> \o NumToStr(maxRows)
        ELSE trimmed

(***************************************************************************)
(* utils/tokens.ts                                                         *)
(***************************************************************************)
\* Math.ceil(text.length / 4)
estimateTokens(text) == (Len(text) + 3) \div 4

\* "\n... (schema truncated to fit context)"
TruncationMarker ==
    <<"\n",".",".","."," ","(","s","c","h","e","m","a"," ",
      "t","r","u","n","c","a","t","e","d"," ","t","o"," ",
      "f","i","t"," ","c","o","n","t","e","x","t",")">>

\* truncateSchema(schema, maxTokens) for maxTokens >= 0
truncateSchema(schema, maxTokens) ==
    LET maxChars    == maxTokens * 4
        truncated   == sliceTo(schema, maxChars)
        \* the source's 0-based index, -1 when there is no newline
        lastNewline == lastIndexOf(truncated, "\n") - 1
    IN  IF Len(schema) <= maxChars
        THEN [text |-> schema, truncated |-> FALSE]
        ELSE [text |-> sliceTo(truncated, lastNewline) \o TruncationMarker,
              truncated |-> TRUE]

(***************************************************************************)
(* chatdb.ts: query(), from the provider response to db.execute            *)
(***************************************************************************)
\* s.replace(/pat/g, rep) for a literal pattern, from position i on
RECURSIVE ReplaceAllFrom(_, _, _, _)
ReplaceAllFrom(s, i, pat, rep) ==
    IF i > Len(s) THEN <<>>
    ELSE IF MatchAt(s, i, pat)
         THEN rep \o ReplaceAllFrom(s, i + Len(pat), pat, rep)
         ELSE <<s[i]>> \o ReplaceAllFrom(s, i + 1, pat, rep)

ReplaceAll(s, pat, rep) == ReplaceAllFrom(s, 1, pat, rep)

\* .replace(/\\"/g, '"').replace(/\\n/g, " ").replace(/\\\\/g, "\\").trim()
UnescapeSQL(sql) ==
    trim(ReplaceAll(
            ReplaceAll(
                ReplaceAll(sql, <<"\\", "\"">>, <<"\"">>),
                <<"\\", "n">>, <<" ">>),
            <<"\\", "\\">>, <<"\\">>))

\* length of the match of the schemaPrefix expression
\*   (?:"?SCHEMA"?\.)|(?:SCHEMA\.)    with flag i, SCHEMA escaped to a literal
\* at position i of s, 0 when it does not match there; the optional quotes
\* are greedy
SchemaPrefixLen(s, i, schema) ==
    LET q == <<"\"">>
        forms == << q \o schema \o q \o <<".">>,
                    q \o schema \o <<".">>,
                    schema \o q \o <<".">>,
                    schema \o <<".">> >>
    IN  IF \E f \in 1..4 : MatchAtCI(s, i, forms[f])
        THEN Len(forms[CHOOSE f \in 1..4 :
                           /\ MatchAtCI(s, i, forms[f])
                           /\ \A g \in 1..(f-1) : ~MatchAtCI(s, i, forms[g])])
        ELSE 0

\* parsed.sql.replace(schemaPrefix, "") from position i on
RECURSIVE StripSchemaPrefixFrom(_, _, _)
StripSchemaPrefixFrom(s, i, schema) ==
    IF i > Len(s) THEN <<>>
    ELSE IF SchemaPrefixLen(s, i, schema) > 0
         THEN StripSchemaPrefixFrom(s, i + SchemaPrefixLen(s, i, schema), schema)
         ELSE <<s[i]>> \o StripSchemaPrefixFrom(s, i + 1, schema)

StripSchemaPrefix(s, schema) == StripSchemaPrefixFrom(s, 1, schema)

\* step 6 of query(): clean up the SQL, then strip the schema prefix
CleanSQL(sql, schema) == StripSchemaPrefix(UnescapeSQL(sql), schema)

\* A message is a tuple of pieces: fixed texts and characters.
\* new ChatDBError(`Failed to parse LLM response as JSON: ${result.content}`)
ErrParse(content) ==
    [type |-> "ChatDBError",
     message |-> <<"Failed to parse LLM response as JSON", ":", " ">> \o content]
ErrMissing  == [type |-> "ChatDBError",
                message |-> <<"Invalid AI response: missing sql or explanation">>]
\* what JavaScript throws on parsed.sql with parsed null, and on
\* parsed.sql.replace(...) with parsed.sql not a string
ErrTypeError == [type |-> "TypeError", message |-> <<"not an object or not a string">>]
\* what adapter.execute throws from its catch block
ErrDatabase == [type |-> "DatabaseError", message |-> <<"query failed">>]
\* what adapter.execute throws from before its try: the driver's own error
\* (pool.connect() of PostgresAdapter, new Database() of SQLiteAdapter)
ErrDriver == [type |-> "Error", message |-> <<"connection failed">>]
\* a ValidationError that does not carry the SQL
ValidationError_NoSql(error, sql) ==
    [type |-> "ValidationError", message |-> error, sql |-> <<>>]
\* new ValidationError(validation.error, parsed.sql)
ValidationError(error, sql) == [type |-> "ValidationError", message |-> error, sql |-> sql]

\* Bound of the provider's SQL: a head followed by at most MaxQueryFrags
\* fragments.
MaxQueryFrags == 3

kPublic == <<"p","u","b","l","i","c">>

QueryHeads == {
    <<>>,
    <<"S","E","L","E","C","T"," ">>,
    <<"S","E","L","E","C","T"," ","1","/","*","'","*","/">> }

QueryFrags == {
    <<" ">>, <<";">>, <<"'">>,
    <<"D","R","O","P">>,
    <<"l","i","m","i","t"," ","5","0","0","0">>,
    <<"P","u","b","l","i","c",".">>,
    <<"-","-","'">>,
    <<"U+000B","i","n","U+017F","e","r","U+1E97">>,
    <<"\\", "\"">>, <<"\\", "n">>, <<"\\", "\\">> }

QuerySqls == {h \o b : h \in QueryHeads, b \in ConcatUpTo(QueryFrags, MaxQueryFrags)}

\* JSON values: a property that is absent, null, a string or a number
JUndefined == [t |-> "undefined", s |-> <<>>, n |-> 0]
JNull      == [t |-> "null", s |-> <<>>, n |-> 0]
JStr(s)    == [t |-> "string", s |-> s, n |-> 0]
JNum(n)    == [t |-> "number", s |-> <<>>, n |-> n]

\* !v is false
Truthy(v) ==
    \/ v.t = "string" /\ v.s # <<>>
    \/ v.t = "number" /\ v.n # 0

\* v ?? d
Coalesce(v, d) == IF v.t \in {"undefined", "null"} THEN d ELSE v

kSelect1 == <<"S","E","L","E","C","T"," ","1">>
kBrief ==
    <<"b","r","i","e","f">>
kBar ==
    <<"b","a","r">>
kTable ==
    <<"t","a","b","l","e">>
kScatter ==
    <<"s","c","a","t","t","e","r">>

\* the ChartType of types.ts
ChartTypes ==
    {kBar, kTable, <<"l","i","n","e">>, <<"p","i","e">>, <<"n","u","m","b","e","r">>}

\* JSON.parse(result.content) when it is an object with these properties
\* (text: result.content itself, kept where it is read again)
JObject(sql, explanation, chartType) ==
    [json |-> TRUE, shape |-> "object", sql |-> sql, explanation |-> explanation,
     chartType |-> chartType, text |-> <<>>]

\* JSON.parse(result.content) when it is null, a number, a string or an array
JOther(shape) ==
    [json |-> TRUE, shape |-> shape, sql |-> JUndefined, explanation |-> JUndefined,
     chartType |-> JUndefined, text |-> <<>>]

\* result.content is the given text and JSON.parse throws on it
NotJson(text) ==
    [json |-> FALSE, shape |-> "none", sql |-> JUndefined, explanation |-> JUndefined,
     chartType |-> JUndefined, text |-> text]

\* texts that are not JSON: empty, a word, unquoted keys, an open object
NotJsonTexts ==
    { <<>>,
      <<"n","o","p","e">>,
      <<"{","s","q","l",":"," ","1","}">>,
      <<"{","\"","s","q","l","\"",":","\"","S","E","L","E","C","T"," ","1","\"">> }

\* result.content: text that is not JSON; JSON that is no object; an object
\* with one of the SQL texts; an object whose sql, explanation or chartType is
\* absent, null, empty, a number or an unknown chart type
QueryContents ==
    {NotJson(t) : t \in NotJsonTexts}
    \cup {JOther(shape) : shape \in {"null", "number", "string", "array"}}
    \cup {JObject(JStr(t), JStr(kBrief), JStr(kBar)) : t \in QuerySqls}
    \cup {JObject(v, JStr(kBrief), JStr(kBar)) : v \in {JUndefined, JNull, JNum(5)}}
    \cup {JObject(JStr(kSelect1), v, JStr(kBar)) :
               v \in {JUndefined, JNull, JStr(<<>>), JNum(0)}}
    \cup {JObject(JStr(kSelect1), JStr(kBrief), v) :
               v \in {JUndefined, JNull, JNum(5), JStr(<<>>), JStr(kScatter)}
                      \cup {JStr(c) : c \in ChartTypes}}

\* config.allowWrites ?? false, config.maxRows ?? 1000
DefaultMaxRows == 1000

QueryConfigs == { [allowWrites |-> "false", maxRows |-> DefaultMaxRows],
                  [allowWrites |-> "true",  maxRows |-> 5] }

\* llm.generate has returned result.content
QueryInit ==
    /\ OthersIdle("query")
    /\ qCfg \in QueryConfigs
    /\ qSchema = kPublic
    /\ qContent \in QueryContents
    /\ qPc = "generated"
    /\ qSql = <<>>
    /\ qErr = Nothing
    /\ qExecuted = <<>>
    /\ qResult = Nothing

\* step 5: JSON.parse and the check of sql and explanation
QueryParse ==
    /\ qPc = "generated"
    /\ IF ~qContent.json
       THEN qPc' = "failed" /\ qErr' = Some(ErrParse(qContent.text)) /\ UNCHANGED qSql
       ELSE IF qContent.shape = "null"
       THEN qPc' = "failed" /\ qErr' = Some(ErrTypeError) /\ UNCHANGED qSql
       ELSE IF ~Truthy(qContent.sql) \/ ~Truthy(qContent.explanation)
       THEN qPc' = "failed" /\ qErr' = Some(ErrMissing) /\ UNCHANGED qSql
       ELSE qPc' = "parsed" /\ qSql' = qContent.sql.s /\ UNCHANGED qErr
    /\ UNCHANGED <<qCfg, qSchema, qContent, qExecuted, qResult, outsideQuery>>

\* step 6: un-escape and strip the schema prefix
QueryClean ==
    /\ qPc = "parsed"
    /\ IF qContent.sql.t # "string"
       THEN qPc' = "failed" /\ qErr' = Some(ErrTypeError) /\ UNCHANGED qSql
       ELSE qPc' = "cleaned" /\ qSql' = CleanSQL(qSql, qSchema) /\ UNCHANGED qErr
    /\ UNCHANGED <<qCfg, qSchema, qContent, qExecuted, qResult, outsideQuery>>

\* step 7: validateSQL, ValidationError when it is not valid
QueryValidate ==
    /\ qPc = "cleaned"
    /\ LET validation == validateSQL(qSql, qCfg.allowWrites)
       IN  IF ~validation.valid
           THEN qPc' = "failed" /\ qErr' = Some(ValidationError(validation.error, qSql))
           ELSE qPc' = "validated" /\ UNCHANGED qErr
    /\ UNCHANGED <<qCfg, qSchema, qContent, qSql, qExecuted, qResult, outsideQuery>>

\* steps 8 and 9: ensureLimit, then db.execute(safeSql, schema)
QueryExecute ==
    /\ qPc = "validated"
    /\ qExecuted' = Append(qExecuted, ensureLimit(qSql, qCfg.maxRows))
    /\ qPc' = "executed"
    /\ UNCHANGED <<qCfg, qSchema, qContent, qSql, qErr, qResult, outsideQuery>>

\* db.execute resolved: chartType defaults to "table", the result is returned
QueryReturn ==
    /\ qPc = "executed"
    /\ qResult' = Some([sql |-> qExecuted[Len(qExecuted)],
                        explanation |-> qContent.explanation,
                        chartType |-> Coalesce(qContent.chartType, JStr(kTable))])
    /\ qPc' = "returned"
    /\ UNCHANGED <<qCfg, qSchema, qContent, qSql, qErr, qExecuted, outsideQuery>>

\* db.execute rejected: the error of the adapter is thrown on as it is, the
\* DatabaseError of its catch block or the driver's error from before its try
QueryDbError(err) ==
    /\ qPc = "executed"
    /\ qErr' = Some(err)
    /\ qPc' = "failed"
    /\ UNCHANGED <<qCfg, qSchema, qContent, qSql, qExecuted, qResult, outsideQuery>>

QueryNext ==
    \/ QueryParse
    \/ QueryClean
    \/ QueryValidate
    \/ QueryExecute
    \/ QueryReturn
    \/ \E err \in {ErrDatabase, ErrDriver} : QueryDbError(err)

SpecQuery == QueryInit /\ [][QueryNext]_vars

(***************************************************************************)
(* Guard harness: validateSQL and ensureLimit applied to bounded inputs    *)
(***************************************************************************)
\* Bound of the guard inputs: a text is a head followed by at most
\* MaxGuardFrags fragments.
MaxGuardFrags == 3

GuardHeads == {
    <<>>,
    <<"S","E","L","E","C","T"," ">>,
    <<"w","i","t","h"," ">>,
    <<" ","S","e","l","e","c","t","\n">>,
    <<"S","E","L","E","C","T","x">>,
    <<"x"," ","S","E","L","E","C","T"," ">>,
    <<"S","E","L","E","C","T"," ","1"," ","l","i","m","i","t"," ","7">>,
    <<"U+FEFF","s","e","l","e","c","t","U+000B">>,
    <<"S","E","L","E","C","T"," ","U+017F">>,
    <<"U+017F","E","L","E","C","T"," ">> }

\* blanks, a semicolon, a quote, a letter, keywords, and a word that holds a
\* keyword only in upper case (long s, t with diaeresis)
GuardFrags == {
    <<" ">>, <<";">>, <<"'">>, <<"x">>,
    <<"D","R","O","P">>,
    <<"i","n","s","e","r","t">>,
    <<"i","n","U+017F","e","r","U+1E97">> }

GuardInputs == {h \o b : h \in GuardHeads, b \in ConcatUpTo(GuardFrags, MaxGuardFrags)}

\* (allowWrites, maxRows) as a caller may pass them
GuardOptions == {<<"unset", 1000>>, <<"false", 5>>, <<"true", 1000>>}

GuardInit ==
    /\ OthersIdle("guard")
    /\ gSql \in GuardInputs
    /\ \E o \in GuardOptions : gAllow = o[1] /\ gMax = o[2]
    /\ gRes = Nothing
    /\ gLim = Nothing
    /\ gLim2 = Nothing

\* a caller runs validateSQL on the text
GuardValidate ==
    /\ gRes = Nothing
    /\ gRes' = Some(validateSQL(gSql, gAllow))
    /\ UNCHANGED <<gSql, gAllow, gMax, gLim, gLim2>>
    /\ UNCHANGED outsideGuard

\* a caller runs ensureLimit on the text
GuardLimit ==
    /\ gRes # Nothing
    /\ gLim = Nothing
    /\ gLim' = Some(ensureLimit(gSql, gMax))
    /\ UNCHANGED <<gSql, gAllow, gMax, gRes, gLim2>>
    /\ UNCHANGED outsideGuard

\* a caller runs ensureLimit on the text ensureLimit returned
GuardLimitAgain ==
    /\ gLim # Nothing
    /\ gLim2 = Nothing
    /\ gLim2' = Some(ensureLimit(Val(gLim), gMax))
    /\ UNCHANGED <<gSql, gAllow, gMax, gRes, gLim>>
    /\ UNCHANGED outsideGuard

GuardNext == GuardValidate \/ GuardLimit \/ GuardLimitAgain

SpecGuard == GuardInit /\ [][GuardNext]_vars

(***************************************************************************)
(* Token harness: estimateTokens and truncateSchema on bounded inputs      *)
(***************************************************************************)
\* Bounds of the token inputs: a text of at most MaxTokenFrags fragments, a
\* budget of at most MaxTokenBudget tokens.
MaxTokenFrags == 4
MaxTokenBudget == 2

TokenFrags == { <<"a">>, <<"\n">>, <<"b","c","d">>, TruncationMarker }

TokenInit ==
    /\ OthersIdle("tokens")
    /\ tText \in ConcatUpTo(TokenFrags, MaxTokenFrags)
    /\ tMax \in 1..MaxTokenBudget
    /\ tOut = Nothing
    /\ tTok = Nothing

\* a caller runs truncateSchema on the text
TokenTruncate ==
    /\ tOut = Nothing
    /\ tOut' = Some(truncateSchema(tText, tMax))
    /\ UNCHANGED <<tText, tMax, tTok, outsideTokens>>

\* a caller runs estimateTokens on the text
TokenEstimate ==
    /\ tTok = Nothing
    /\ tTok' = Some(estimateTokens(tText))
    /\ UNCHANGED <<tText, tMax, tOut, outsideTokens>>

TokenNext == TokenTruncate \/ TokenEstimate

SpecTokens == TokenInit /\ [][TokenNext]_vars

(***************************************************************************)
(* Properties of the guard                                                 *)
(***************************************************************************)
\* number of leading whitespace characters of s
LeadingSpaces(s) == Cardinality({i \in 1..Len(s) : \A j \in 1..i : IsSpace(s[j])})

\* s, ignoring leading whitespace, begins with SELECT or WITH in any case
BeginsWithReadWord(s) ==
    \/ MatchAtCI(s, LeadingSpaces(s) + 1, kSELECT)
    \/ MatchAtCI(s, LeadingSpaces(s) + 1, kWITH)

\* ... and the word is followed by whitespace and then by more text
HasReadShape(s) ==
    \E w \in {kSELECT, kWITH} :
        LET p == LeadingSpaces(s) + 1 + Len(w)
        IN  /\ MatchAtCI(s, LeadingSpaces(s) + 1, w)
            /\ p <= Len(s) /\ IsSpace(s[p])
            /\ \E j \in (p + 1)..Len(s) : ~IsSpace(s[j])

\* position i of s lies in a single-quoted span: an odd number of quotes
\* precedes it and a closing quote follows
InQuotedSpan(s, i) ==
    /\ Cardinality({j \in 1..(i-1) : s[j] = "'"}) % 2 = 1
    /\ \E j \in (i+1)..Len(s) : s[j] = "'"

\* blocked keyword k occurs as a whole word outside single-quoted spans in
\* u, a text in upper case (letter case is set aside by reading a text in
\* upper case); a word ends where a letter, digit or underscore of ASCII
\* meets any other character
KeywordOutsideSpans(u, k) ==
    \E i \in 1..Len(u) :
        /\ MatchAt(u, i, BLOCKED_KEYWORDS[k].chars)
        /\ WordBoundary(u, i)
        /\ WordBoundary(u, i + Len(BLOCKED_KEYWORDS[k].chars))
        /\ ~InQuotedSpan(u, i)

KeywordIndexes == 1..Len(BLOCKED_KEYWORDS)

KeywordsOutsideSpans(s) ==
    LET u == toUpperCase(s)
    IN  {k \in KeywordIndexes : KeywordOutsideSpans(u, k)}

KeywordErrors == {ErrKeyword(k) : k \in KeywordIndexes}

\* s has a semicolon anywhere before its final character
SemicolonBeforeEnd(s) == \E i \in 1..(Len(s) - 1) : s[i] = ";"

\* s has a semicolon outside single-quoted spans that is not the last
\* character of the trimmed text
SemicolonOutsideSpansBeforeEnd(s) ==
    \E i \in 1..Len(s) :
        /\ s[i] = ";"
        /\ ~InQuotedSpan(s, i)
        /\ \E j \in (i+1)..Len(s) : ~IsSpace(s[j])

\* validateSQL has just returned for a call with allowWrites unset or false
\* (gSql and gRes do not change afterwards)
GuardChecked == gRes # Nothing /\ gLim = Nothing /\ gAllow # "true"

\* C3: with allowWrites unset or false validateSQL returns invalid for every
\* text that, ignoring leading whitespace, does not begin with SELECT or WITH
\* in any letter case (the empty text included); with allowWrites true it
\* returns valid for every text.
C3_NonReadRejected ==
    (gRes # Nothing /\ gLim = Nothing) =>
        /\ (gAllow # "true" /\ ~BeginsWithReadWord(gSql)) => ~Val(gRes).valid
        /\ gAllow = "true" => Val(gRes) = [valid |-> TRUE]

C3_Witness ==
    /\ GuardChecked
    /\ Len(gSql) > 0
    /\ ~BeginsWithReadWord(gSql)
    /\ ~Val(gRes).valid

\* C4 as claimed: every text with a blocked keyword as a whole word outside
\* single-quoted spans is invalid with an error naming that keyword; a text
\* with blocked keywords only inside literals is not rejected by the keyword
\* check.
C4_AsClaimed ==
    GuardChecked =>
        /\ KeywordsOutsideSpans(gSql) # {} =>
               /\ ~Val(gRes).valid
               /\ \E k \in KeywordsOutsideSpans(gSql) : Val(gRes).error = ErrKeyword(k)
        /\ KeywordsOutsideSpans(gSql) = {} =>
               (Val(gRes).valid \/ Val(gRes).error \notin KeywordErrors)

\* C4 amended: every text whose upper-case form has a blocked keyword as a
\* whole word outside single-quoted spans is invalid; its error is the statement-shape error,
\* the multi-statement error, or names the keyword that comes first in the
\* block list among those the text has outside literals, and it is that
\* keyword error whenever the text has the read shape and no early semicolon;
\* a text with blocked keywords only inside literals is not rejected by the
\* keyword check.
C4_KeywordRejected ==
    GuardChecked =>
        LET found == KeywordsOutsideSpans(gSql)
        IN  /\ found # {} =>
                   LET first == CHOOSE k \in found : \A j \in found : k <= j
                   IN  /\ ~Val(gRes).valid
                       /\ Val(gRes).error \in
                              {ErrOnlySelect, ErrMultiple, ErrKeyword(first)}
                       /\ (HasReadShape(gSql) /\ ~SemicolonOutsideSpansBeforeEnd(gSql))
                              => Val(gRes).error = ErrKeyword(first)
            /\ found = {} =>
                   (Val(gRes).valid \/ Val(gRes).error \notin KeywordErrors)

\* a text with two keywords, one of them spelled with the long s, is
\* rejected for a keyword
C4_Witness ==
    /\ GuardChecked
    /\ Cardinality(KeywordsOutsideSpans(gSql)) = 2
    /\ \E i \in 1..Len(gSql) : gSql[i] = "U+017F"
    /\ Val(gRes).valid = FALSE
    /\ Val(gRes).error \in KeywordErrors

\* C5 as claimed: every text with a semicolon anywhere before its final
\* character is invalid with the multi-statement reason, the statement-shape
\* error taking precedence over it and it over the keyword error.
C5_AsClaimed ==
    GuardChecked =>
        /\ ~HasReadShape(gSql) => (~Val(gRes).valid /\ Val(gRes).error = ErrOnlySelect)
        /\ (HasReadShape(gSql) /\ SemicolonBeforeEnd(gSql)) =>
               (~Val(gRes).valid /\ Val(gRes).error = ErrMultiple)

\* C5 amended: every text with a semicolon outside single-quoted spans that
\* is not the last character of the trimmed text is invalid, with the
\* multi-statement reason when the text has the read shape; the
\* statement-shape error takes precedence over the multi-statement error and
\* that over the keyword error.
C5_MultiStatementRejected ==
    GuardChecked =>
        /\ ~HasReadShape(gSql) => (~Val(gRes).valid /\ Val(gRes).error = ErrOnlySelect)
        /\ (HasReadShape(gSql) /\ SemicolonOutsideSpansBeforeEnd(gSql)) =>
               (~Val(gRes).valid /\ Val(gRes).error = ErrMultiple)
        /\ (~Val(gRes).valid /\ Val(gRes).error \in KeywordErrors) =>
               (HasReadShape(gSql) /\ ~SemicolonOutsideSpansBeforeEnd(gSql))

C5_Witness ==
    /\ GuardChecked
    /\ HasReadShape(gSql)
    /\ SemicolonOutsideSpansBeforeEnd(gSql)
    /\ KeywordsOutsideSpans(gSql) # {}
    /\ Val(gRes) = [valid |-> FALSE, error |-> ErrMultiple]

\* number of places where s reads LIMIT in any letter case
CountLimit(s) == Cardinality({i \in 1..Len(s) : MatchAtCI(s, i, kLIMIT)})

\* C6 as claimed: ensureLimit is idempotent, ensureLimit(ensureLimit(s, n), n)
\* = ensureLimit(s, n), and a text that already has LIMIT <number> in any
\* letter case gets no further LIMIT.
C6_Idempotent ==
    /\ gLim2 # Nothing => Val(gLim2) = Val(gLim)
    /\ (gLim # Nothing /\ HasLimit(gSql)) => CountLimit(Val(gLim)) = CountLimit(gSql)

(***************************************************************************)
(* Properties of the SQL that query() executes                             *)
(***************************************************************************)
\* decimal text -> number
RECURSIVE StrToNum(_)
StrToNum(d) ==
    IF Len(d) = 0 THEN 0
    ELSE 10 * StrToNum(Sub(d, 1, Len(d) - 1))
         + (CHOOSE v \in 0..9 : DigitChars[v + 1] = d[Len(d)])

\* number of digits that end s
TrailingDigits(s) ==
    Cardinality({i \in 1..Len(s) : \A j \in i..Len(s) : IsDigit(s[j])})

\* s ends with the clause LIMIT <number>, the last clause of the statement
EndsWithLimit(s) ==
    LET d == TrailingDigits(s)
    IN  /\ d > 0
        /\ \E i \in 1..Len(s) :
               /\ MatchAtCI(s, i, kLIMIT)
               /\ WordBoundary(s, i)
               /\ i + 5 <= Len(s) - d
               /\ \A k \in (i + 5)..(Len(s) - d) : IsSpace(s[k])

\* the number of that clause
EndLimitValue(s) == StrToNum(Sub(s, Len(s) - TrailingDigits(s) + 1, Len(s)))

\* The positions of s that an SQL lexer reads as statement text, outside
\* single-quoted literals and outside comments (-- to the end of the line,
\* /* to */); st is the lexer's state at position i.
RECURSIVE LexCode(_, _, _)
LexCode(s, i, st) ==
    IF i > Len(s) THEN {}
    ELSE IF st = "code"
         THEN IF MatchAt(s, i, <<"-","-">>) THEN LexCode(s, i + 2, "line")
              ELSE IF MatchAt(s, i, <<"/","*">>) THEN LexCode(s, i + 2, "block")
              ELSE IF s[i] = "'" THEN LexCode(s, i + 1, "literal")
              ELSE {i} \cup LexCode(s, i + 1, "code")
    ELSE IF st = "literal"
         THEN LexCode(s, i + 1, IF s[i] = "'" THEN "code" ELSE "literal")
    ELSE IF st = "line"
         THEN LexCode(s, i + 1, IF s[i] = "\n" THEN "code" ELSE "line")
    ELSE IF MatchAt(s, i, <<"*","/">>) THEN LexCode(s, i + 2, "code")
         ELSE LexCode(s, i + 1, "block")

CodePositions(s) == LexCode(s, 1, "code")

\* blocked keyword k is a whole word of the statement text of s
KeywordInCode(s, k) ==
    \E i \in CodePositions(s) :
        /\ MatchAtCI(s, i, BLOCKED_KEYWORDS[k].chars)
        /\ WordBoundary(s, i)
        /\ WordBoundary(s, i + Len(BLOCKED_KEYWORDS[k].chars))

\* C1 as claimed: with allowWrites false every SQL text passed to db.execute
\* is a single read-only statement: it begins with SELECT or WITH, has no
\* semicolon outside single-quoted literals, has no blocked keyword as a
\* whole word outside single-quoted literals, and is a text the guard
\* accepts. (A semicolon or keyword inside a comment is not counted against
\* the claim.)
C1_ExecutedIsReadOnly ==
    qCfg.allowWrites = "false" =>
        \A n \in 1..Len(qExecuted) :
            LET e == qExecuted[n]
            IN  /\ MatchAtCI(e, 1, kSELECT) \/ MatchAtCI(e, 1, kWITH)
                /\ \A i \in CodePositions(e) : e[i] # ";"
                /\ \A k \in KeywordIndexes : ~KeywordInCode(e, k)
                /\ validateSQL(e, "false").valid

\* C2 as claimed: every statement query() sends to the adapter ends with a
\* LIMIT clause over the whole statement whose number is at most maxRows.
C2_ExecutedIsBounded ==
    \A n \in 1..Len(qExecuted) :
        /\ EndsWithLimit(qExecuted[n])
        /\ EndLimitValue(qExecuted[n]) <= qCfg.maxRows

(***************************************************************************)
(* Properties of truncateSchema                                            *)
(***************************************************************************)
\* C7 as claimed: truncateSchema never returns a text longer than its input,
\* and truncated is false exactly when the returned text equals the input.
C7_NeverLonger ==
    tOut # Nothing =>
        /\ Len(Val(tOut).text) <= Len(tText)
        /\ (Val(tOut).truncated = FALSE) <=> (Val(tOut).text = tText)

\* C8 as claimed: when truncateSchema truncates, the kept text is the prefix
\* of the input that ends at the last newline within the first maxTokens*4
\* characters (whole lines only), followed by the truncation marker; when
\* those characters hold no newline the kept prefix is empty.
C8_WholeLines ==
    (tOut # Nothing /\ Len(tText) > tMax * 4) =>
        LET window == Sub(tText, 1, tMax * 4)
            kept   == IF includes(window, "\n")
                      THEN Sub(tText, 1, lastIndexOf(window, "\n") - 1)
                      ELSE <<>>
        IN  /\ Val(tOut).truncated
            /\ Val(tOut).text = kept \o TruncationMarker

(***************************************************************************)
(* llm/prompt.ts and llm/dialects.ts: the system prompt.  The em dash of   *)
(* the source, one UTF-16 unit, is the one-element text <<"U+2014">>.      *)
(***************************************************************************)
PromptIntro ==
    <<"Y","o","u"," ","a","r","e"," ","a"," ","S","Q","L"," ","a","s","s","i","s","t","a","n",
      "t"," ","f","o","r"," ">>

PromptTask ==
    <<"."," ","G","e","n","e","r","a","t","e"," ","a"," ","S","E","L","E","C","T"," ","q","u",
      "e","r","y"," ","f","r","o","m"," ","t","h","e"," ","u","s","e","r","'","s"," ","q","u",
      "e","s","t","i","o","n",".","\n","T","h","e"," ","a","c","t","i","v","e"," ","s","c","h",
      "e","m","a"," ","i","s"," ","\"">>

PromptNoPrefix ==
    <<"\"","."," ","N","E","V","E","R"," ","p","r","e","f","i","x"," ","t","a","b","l","e"," ",
      "n","a","m","e","s"," ","w","i","t","h"," ","t","h","e"," ","s","c","h","e","m","a",".",
      " ","Q","u","e","r","y"," ","t","a","b","l","e","s"," ","d","i","r","e","c","t","l","y",
      " ","(","S","E","L","E","C","T"," ","*"," ","F","R","O","M"," ","m","y","_","t","a","b",
      "l","e",")",".">>

PromptPostgresCaveat ==
    <<" ","D","o"," ","N","O","T"," ","a","d","d"," ","W","H","E","R","E"," ","t","a","b","l",
      "e","_","s","c","h","e","m","a"," ","="," ","'",".",".",".","'"," ","t","o"," ","r","e",
      "g","u","l","a","r"," ","t","a","b","l","e","s"," ","U+2014"," ","o","n","l","y"," ","u",
      "s","e"," ","t","a","b","l","e","_","s","c","h","e","m","a"," ","w","h","e","n"," ","q",
      "u","e","r","y","i","n","g"," ","i","n","f","o","r","m","a","t","i","o","n","_","s","c",
      "h","e","m","a",".">>

PromptRules ==
    <<"\n","R","u","l","e","s",":"," ","O","N","L","Y"," ","S","E","L","E","C","T",","," ","i",
      "n","c","l","u","d","e"," ","L","I","M","I","T"," ","1","0","0","0",","," ","r","e","s",
      "p","o","n","d"," ","w","i","t","h"," ","J","S","O","N"," ","o","n","l","y",".","\n","W",
      "h","e","n"," ","u","s","i","n","g"," ","G","R","O","U","P"," ","B","Y",","," ","A","L",
      "W","A","Y","S"," ","i","n","c","l","u","d","e"," ","a","n"," ","a","g","g","r","e","g",
      "a","t","e"," ","f","u","n","c","t","i","o","n"," ","(","C","O","U","N","T",","," ","S",
      "U","M",","," ","A","V","G",","," ","e","t","c",".",")"," ","a","s"," ","t","h","e"," ",
      "s","e","c","o","n","d"," ","c","o","l","u","m","n"," ","s","o"," ","c","h","a","r","t",
      "s"," ","c","a","n"," ","r","e","n","d","e","r",".","\n","F","o","r","m","a","t",":"," ",
      "{","\"","s","q","l","\"",":","\"","S","E","L","E","C","T"," ",".",".",".","\"",",","\"",
      "e","x","p","l","a","n","a","t","i","o","n","\"",":","\"","b","r","i","e","f","\"",",",
      "\"","c","h","a","r","t","T","y","p","e","\"",":","\"","b","a","r","|","l","i","n","e",
      "|","p","i","e","|","t","a","b","l","e","|","n","u","m","b","e","r","\"","}","\n","c","h",
      "a","r","t","T","y","p","e",":"," ","n","u","m","b","e","r","=","s","i","n","g","l","e",
      " ","v","a","l","u","e",","," ","l","i","n","e","=","t","i","m","e"," ","s","e","r","i",
      "e","s",","," ","b","a","r","=","c","a","t","e","g","o","r","i","e","s"," ","w","i","t",
      "h"," ","v","a","l","u","e","s",","," ","p","i","e","=","p","r","o","p","o","r","t","i",
      "o","n","s"," ","w","i","t","h"," ","c","o","u","n","t","s",","," ","t","a","b","l","e",
      "=","r","a","w"," ","d","a","t","a",".","\n","A","n","s","w","e","r"," ","i","n"," ","t",
      "h","e"," ","S","A","M","E"," ","L","A","N","G","U","A","G","E"," ","a","s"," ","t","h",
      "e"," ","u","s","e","r",".","\n","\n">>

PromptSpecifics ==
    <<" ","s","p","e","c","i","f","i","c","s",":","\n","-"," ","C","u","r","r","e","n","t"," ",
      "d","a","t","e",":"," ">>

PromptDateTrunc ==
    <<"\n","-"," ","D","a","t","e"," ","t","r","u","n","c","a","t","i","o","n",":"," ">>

PromptConcat ==
    <<"\n","-"," ","S","t","r","i","n","g"," ","c","o","n","c","a","t","e","n","a","t","i","o",
      "n",":"," ">>

PromptSchema ==
    <<"\n","\n","S","C","H","E","M","A",":","\n">>

DialectPostgreSQL ==
    [name |->
        <<"P","o","s","t","g","r","e","S","Q","L">>,
     currentDate |->
        <<"C","U","R","R","E","N","T","_","D","A","T","E">>,
     dateTrunc |->
        <<"d","a","t","e","_","t","r","u","n","c","(","'","p","e","r","i","o","d","'",","," ",
          "c","o","l","u","m","n",")">>,
     stringConcat |->
        <<"|","|">>,
     notes |-> <<
        <<"U","s","e"," ","I","L","I","K","E"," ","f","o","r"," ","c","a","s","e","-","i","n",
          "s","e","n","s","i","t","i","v","e"," ","m","a","t","c","h","i","n","g",".">>,
        <<"I","N","T","E","R","V","A","L"," ","s","y","n","t","a","x",":"," ","I","N","T","E",
          "R","V","A","L"," ","'","1"," ","m","o","n","t","h","'",".">>,
        <<"S","u","p","p","o","r","t","s"," ","C","T","E","s"," ","(","W","I","T","H"," ",".",
          ".","."," ","A","S",")",".">> >>]

DialectMySQL ==
    [name |->
        <<"M","y","S","Q","L">>,
     currentDate |->
        <<"C","U","R","D","A","T","E","(",")">>,
     dateTrunc |->
        <<"D","A","T","E","_","F","O","R","M","A","T","(","c","o","l","u","m","n",","," ","'",
          "%","Y","-","%","m","-","0","1","'",")">>,
     stringConcat |->
        <<"C","O","N","C","A","T","(","a",","," ","b",")">>,
     notes |-> <<
        <<"U","s","e"," ","b","a","c","k","t","i","c","k","s"," ","f","o","r"," ","i","d","e",
          "n","t","i","f","i","e","r","s"," ","w","i","t","h"," ","s","p","e","c","i","a","l",
          " ","c","h","a","r","a","c","t","e","r","s",".">>,
        <<"L","I","K","E"," ","i","s"," ","c","a","s","e","-","i","n","s","e","n","s","i","t",
          "i","v","e"," ","b","y"," ","d","e","f","a","u","l","t",".">>,
        <<"I","N","T","E","R","V","A","L"," ","s","y","n","t","a","x",":"," ","I","N","T","E",
          "R","V","A","L"," ","1"," ","M","O","N","T","H",".">>,
        <<"U","s","e"," ","I","F","N","U","L","L","(",")"," ","i","n","s","t","e","a","d"," ",
          "o","f"," ","C","O","A","L","E","S","C","E","(",")"," ","f","o","r"," ","t","w","o",
          " ","a","r","g","u","m","e","n","t","s",".">> >>]

DialectSQLite ==
    [name |->
        <<"S","Q","L","i","t","e">>,
     currentDate |->
        <<"d","a","t","e","(","'","n","o","w","'",")">>,
     dateTrunc |->
        <<"s","t","r","f","t","i","m","e","(","'","%","Y","-","%","m","'",","," ","c","o","l",
          "u","m","n",")">>,
     stringConcat |->
        <<"|","|">>,
     notes |-> <<
        <<"N","o"," ","n","a","t","i","v","e"," ","D","A","T","E"," ","t","y","p","e"," ",
          "U+2014"," ","d","a","t","e","s"," ","s","t","o","r","e","d"," ","a","s"," ","T","E",
          "X","T"," ","o","r"," ","I","N","T","E","G","E","R",".">>,
        <<"U","s","e"," ","s","t","r","f","t","i","m","e","(",")"," ","f","o","r"," ","d","a",
          "t","e"," ","m","a","n","i","p","u","l","a","t","i","o","n",".">>,
        <<"N","o"," ","R","I","G","H","T"," ","J","O","I","N"," ","o","r"," ","F","U","L","L",
          " ","O","U","T","E","R"," ","J","O","I","N",".">>,
        <<"U","s","e"," ","C","O","A","L","E","S","C","E","(",")"," ","f","o","r"," ","n","u",
          "l","l"," ","h","a","n","d","l","i","n","g",".">> >>]


DIALECTS ==
    [postgresql |-> DialectPostgreSQL, mysql |-> DialectMySQL, sqlite |-> DialectSQLite]

\* d.notes.map((n) => `- ${n}`).join("\n"), from note i on
RECURSIVE NoteLinesFrom(_, _)
NoteLinesFrom(notes, i) ==
    IF i > Len(notes) THEN <<>>
    ELSE (IF i > 1 THEN <<"\n">> ELSE <<>>) \o <<"-", " ">> \o notes[i]
             \o NoteLinesFrom(notes, i + 1)

buildSystemPrompt(dialect, schemaText, schemaName) ==
    LET d == DIALECTS[dialect]
    IN  PromptIntro \o d.name \o PromptTask \o schemaName \o PromptNoPrefix
            \o (IF dialect = "postgresql" THEN PromptPostgresCaveat ELSE <<>>)
            \o PromptRules \o d.name \o PromptSpecifics \o d.currentDate
            \o PromptDateTrunc \o d.dateTrunc \o PromptConcat \o d.stringConcat
            \o <<"\n">> \o NoteLinesFrom(d.notes, 1) \o PromptSchema \o schemaText

(***************************************************************************)
(* chatdb.ts: buildMessages                                                *)
(***************************************************************************)
\* the characters below U+0020 that have no short escape, with the two last
\* digits of their \u00XX escape
JsonControlCodes == <<
    [c |-> "U+0000", hex |-> <<"0","0">>], [c |-> "U+0001", hex |-> <<"0","1">>],
    [c |-> "U+0002", hex |-> <<"0","2">>], [c |-> "U+0003", hex |-> <<"0","3">>],
    [c |-> "U+0004", hex |-> <<"0","4">>], [c |-> "U+0005", hex |-> <<"0","5">>],
    [c |-> "U+0006", hex |-> <<"0","6">>], [c |-> "U+0007", hex |-> <<"0","7">>],
    [c |-> "U+000B", hex |-> <<"0","b">>], [c |-> "U+000E", hex |-> <<"0","e">>],
    [c |-> "U+000F", hex |-> <<"0","f">>], [c |-> "U+0010", hex |-> <<"1","0">>],
    [c |-> "U+0011", hex |-> <<"1","1">>], [c |-> "U+0012", hex |-> <<"1","2">>],
    [c |-> "U+0013", hex |-> <<"1","3">>], [c |-> "U+0014", hex |-> <<"1","4">>],
    [c |-> "U+0015", hex |-> <<"1","5">>], [c |-> "U+0016", hex |-> <<"1","6">>],
    [c |-> "U+0017", hex |-> <<"1","7">>], [c |-> "U+0018", hex |-> <<"1","8">>],
    [c |-> "U+0019", hex |-> <<"1","9">>], [c |-> "U+001A", hex |-> <<"1","a">>],
    [c |-> "U+001B", hex |-> <<"1","b">>], [c |-> "U+001C", hex |-> <<"1","c">>],
    [c |-> "U+001D", hex |-> <<"1","d">>], [c |-> "U+001E", hex |-> <<"1","e">>],
    [c |-> "U+001F", hex |-> <<"1","f">>] >>

\* the three digits after the D of each surrogate's code
SurrogateDigitsOf ==
    LET codes == [t \in {"8", "9", "A", "B", "C", "D", "E", "F"} \X HexDigits \X HexDigits |->
                     "U+D" \o t[1] \o t[2] \o t[3]]
    IN  [c \in Surrogates |-> CHOOSE t \in DOMAIN codes : codes[t] = c]

\* a digit as JSON.stringify writes it in an escape: in lower case
LowerHex(d) ==
    IF d = "A" THEN "a" ELSE IF d = "B" THEN "b" ELSE IF d = "C" THEN "c"
    ELSE IF d = "D" THEN "d" ELSE IF d = "E" THEN "e" ELSE IF d = "F" THEN "f" ELSE d

\* the digits of a surrogate's code after its D, as JSON.stringify writes them
SurrogateDigits(c) ==
    LET t == SurrogateDigitsOf[c] IN <<LowerHex(t[1]), LowerHex(t[2]), LowerHex(t[3])>>

\* JSON.stringify on a string of the one code unit c: the quote, the
\* backslash, the five short escapes, \u00XX for the other characters below
\* U+0020, \udXXX for a surrogate (which is a lone one here), every other
\* character as it is
JsonEscapeChar(c) ==
    IF c = "\"" THEN <<"\\", "\"">>
    ELSE IF c = "\\" THEN <<"\\", "\\">>
    ELSE IF c = "U+0008" THEN <<"\\", "b">>
    ELSE IF c = "\f" THEN <<"\\", "f">>
    ELSE IF c = "\n" THEN <<"\\", "n">>
    ELSE IF c = "\r" THEN <<"\\", "r">>
    ELSE IF c = "\t" THEN <<"\\", "t">>
    ELSE IF \E i \in DOMAIN JsonControlCodes : JsonControlCodes[i].c = c
    THEN <<"\\", "u", "0", "0">>
             \o JsonControlCodes[CHOOSE i \in DOMAIN JsonControlCodes :
                                      JsonControlCodes[i].c = c].hex
    ELSE IF c \in Surrogates
    THEN <<"\\", "u", "d">> \o SurrogateDigits(c)
    ELSE <<c>>

\* what JSON.stringify writes for position i of the string t: the two halves
\* of a surrogate pair as they are, any other code unit escaped as above
JsonEscapeAt(t, i) ==
    IF PairAt(t, i) \/ PairAt(t, i - 1) THEN <<t[i]>> ELSE JsonEscapeChar(t[i])

\* the escaped characters lo..hi of the string t, in order
RECURSIVE JsonEscapeSpan(_, _, _)
JsonEscapeSpan(t, lo, hi) ==
    IF lo > hi THEN <<>>
    ELSE IF lo = hi THEN JsonEscapeAt(t, lo)
    ELSE LET mid == (lo + hi) \div 2
         IN  JsonEscapeSpan(t, lo, mid) \o JsonEscapeSpan(t, mid + 1, hi)

\* JSON.stringify on the characters lo..hi of s, without its quotes
JsonEscapeRange(s, lo, hi) ==
    LET t == Sub(s, lo, hi) IN JsonEscapeSpan(t, 1, Len(t))

\* JSON.stringify on a string
JsonString(s) == <<"\"">> \o JsonEscapeRange(s, 1, Len(s)) \o <<"\"">>

JsonSqlKey ==
    <<"{","\"","s","q","l","\"",":">>
JsonExplanationKey ==
    <<",","\"","e","x","p","l","a","n","a","t","i","o","n","\"",":">>
JsonChartTypeKey ==
    <<",","\"","c","h","a","r","t","T","y","p","e","\"",":">>

\* JSON.stringify on a string or a number
JsonValue(v) == IF v.t = "string" THEN JsonString(v.s) ELSE NumToStr(v.n)

\* the content of a history message as it is sent: a user turn as it is, an
\* assistant turn as JSON.stringify({sql, explanation, chartType}) with
\* msg.data?.sql ?? "" and msg.data?.chartType ?? "table"
HistoryContent(msg) ==
    IF msg.role = "user" THEN msg.content
    ELSE JsonSqlKey \o JsonString(IF msg.data # Nothing THEN Val(msg.data).sql ELSE <<>>)
           \o JsonExplanationKey \o JsonString(msg.content)
           \o JsonChartTypeKey
           \o JsonValue(IF msg.data # Nothing
                        THEN Coalesce(Val(msg.data).chartType, JStr(kTable))
                        ELSE JStr(kTable))
           \o <<"}">>

responseReserve == 256

Max(a, b) == IF a >= b THEN a ELSE b

\* the loop without its budget test: every message is taken
RECURSIVE HistoryWalk_All(_, _, _, _)
HistoryWalk_All(history, i, availableForHistory, acc) ==
    IF i = 0 THEN acc
    ELSE LET content == HistoryContent(history[i])
         IN  HistoryWalk_All(history, i - 1, availableForHistory,
                 [historyMsgs |-> <<[role |-> history[i].role, content |-> content]>>
                                     \o acc.historyMsgs,
                  historyTokens |-> acc.historyTokens + estimateTokens(content)])

\* the loop with continue in place of break: a message that does not fit is
\* passed over and older ones are still examined
RECURSIVE HistoryWalk_Skip(_, _, _, _)
HistoryWalk_Skip(history, i, availableForHistory, acc) ==
    IF i = 0 THEN acc
    ELSE LET content == HistoryContent(history[i])
             tokens  == estimateTokens(content)
         IN  IF tokens > availableForHistory
             THEN HistoryWalk_Skip(history, i - 1, availableForHistory, acc)
             ELSE HistoryWalk_Skip(history, i - 1, availableForHistory - tokens,
                      [historyMsgs |-> <<[role |-> history[i].role, content |-> content]>>
                                          \o acc.historyMsgs,
                       historyTokens |-> acc.historyTokens + tokens])

\* the loop with push in place of unshift: the messages taken stand newest
\* first
RECURSIVE HistoryWalk_Push(_, _, _, _)
HistoryWalk_Push(history, i, availableForHistory, acc) ==
    IF i = 0 THEN acc
    ELSE LET content == HistoryContent(history[i])
             tokens  == estimateTokens(content)
         IN  IF tokens > availableForHistory THEN acc
             ELSE HistoryWalk_Push(history, i - 1, availableForHistory - tokens,
                      [historyMsgs |-> acc.historyMsgs
                                          \o <<[role |-> history[i].role, content |-> content]>>,
                       historyTokens |-> acc.historyTokens + tokens])

\* the loop over [...history].reverse(): message i is the next one examined,
\* acc holds the messages taken so far (oldest first) and their tokens
RECURSIVE HistoryWalk(_, _, _, _)
HistoryWalk(history, i, availableForHistory, acc) ==
    IF i = 0 THEN acc
    ELSE LET content == HistoryContent(history[i])
             tokens  == estimateTokens(content)
         IN  IF tokens > availableForHistory THEN acc
             ELSE HistoryWalk(history, i - 1, availableForHistory - tokens,
                      [historyMsgs |-> <<[role |-> history[i].role, content |-> content]>>
                                          \o acc.historyMsgs,
                       historyTokens |-> acc.historyTokens + tokens])

buildMessages(dialect, schema, history, message, maxTokens, schemaName) ==
    LET systemPromptBase == buildSystemPrompt(dialect, <<>>, schemaName)
        rulesTokens  == estimateTokens(systemPromptBase)
        userTokens   == estimateTokens(message)
        schemaBudget == maxTokens - rulesTokens - userTokens - responseReserve - 50
        trimmed      == truncateSchema(schema, Max(schemaBudget, 200))
        systemPrompt == buildSystemPrompt(dialect, trimmed.text, schemaName)
        systemMsg    == [role |-> "system", content |-> systemPrompt]
        userMsg      == [role |-> "user", content |-> message]
        systemTokens == estimateTokens(systemPrompt)
        usedTokens   == systemTokens + userTokens + responseReserve
        availableForHistory == maxTokens - usedTokens
        walk == HistoryWalk(history, Len(history), availableForHistory,
                            [historyMsgs |-> <<>>, historyTokens |-> 0])
    IN  IF availableForHistory <= 0
        THEN [messages |-> <<systemMsg, userMsg>>,
              stats |-> [systemTokens |-> systemTokens, userTokens |-> userTokens,
                         historyTokens |-> 0, historyMessages |-> 0,
                         schemaTruncated |-> trimmed.truncated]]
        ELSE [messages |-> <<systemMsg>> \o walk.historyMsgs \o <<userMsg>>,
              stats |-> [systemTokens |-> systemTokens, userTokens |-> userTokens,
                         historyTokens |-> walk.historyTokens,
                         historyMessages |-> Len(walk.historyMsgs),
                         schemaTruncated |-> trimmed.truncated]]

(***************************************************************************)
(* Budget harness: buildMessages applied to the inputs of one query() call *)
(***************************************************************************)
MaxHistory == 3

\* the text s written n times
Repeat(s, n) == [i \in 1..(n * Len(s)) |-> s[((i - 1) % Len(s)) + 1]]

\* one line of adapter schema text, "tablename(col type, ...)"
SchemaLine ==
    <<"u","s","e","r","s","(","i","d"," ","b","i","g","i","n","t",","," ","n","a","m","e"," ",
      "v","a","r","c","h","a","r",")">>

\* n lines joined by "\n"
SchemaOfLines(n) == IF n = 0 THEN <<>> ELSE SchemaLine \o Repeat(<<"\n">> \o SchemaLine, n - 1)

BudgetSchemas == {SchemaOfLines(n) : n \in {0, 3, 80}}

BudgetQuestions == {<<"h", "i", "?">>, Repeat(<<"w", "h", "y", " ">>, 500)}

BudgetContextLengths == {128, 600, 800, 1024, 4096}

BudgetDialects == {"postgresql", "mysql", "sqlite"}

HistorySql ==
    <<"S","E","L","E","C","T"," ","\"","a","\""," ","F","R","O","M"," ","t">>

HistoryPool ==
    { [role |-> "user", content |-> <<"t", "o", "p", "?">>, data |-> Nothing],
      [role |-> "user", content |-> Repeat(<<"a", "n", "d", " ">>, 100), data |-> Nothing],
      [role |-> "assistant", content |-> <<"o", "k", "\r", "U+0008", "U+0000", "U+DE00", "U+D83D", "U+DE00">>,
       data |-> Some([sql |-> HistorySql, chartType |-> JNum(5)])],
      [role |-> "assistant", content |-> Repeat(<<"l", "i", "n", "e", "\n">>, 40),
       data |-> Nothing] }

RECURSIVE SeqsUpTo(_, _)
SeqsUpTo(S, n) ==
    IF n = 0 THEN {<<>>}
    ELSE LET shorter == SeqsUpTo(S, n - 1)
         IN  shorter \cup {Append(h, m) : h \in shorter, m \in S}

BudgetHistories == SeqsUpTo(HistoryPool, MaxHistory)

BudgetInit ==
    /\ bDialect \in BudgetDialects
    /\ bSchemaName = kPublic
    /\ bSchema \in BudgetSchemas
    /\ bHistory \in BudgetHistories
    /\ bMessage \in BudgetQuestions
    /\ bMaxTokens \in BudgetContextLengths
    /\ bOut = Nothing
    /\ OthersIdle("budget")

\* query() step 3: const { messages, stats } = this.buildMessages(...)
BudgetBuild ==
    /\ bOut = Nothing
    /\ bOut' = Some(buildMessages(bDialect, bSchema, bHistory, bMessage,
                                  bMaxTokens, bSchemaName))
    /\ UNCHANGED <<bDialect, bSchemaName, bSchema, bHistory, bMessage, bMaxTokens>>
    /\ UNCHANGED outsideBudget

BudgetNext == BudgetBuild

SpecBudget == BudgetInit /\ [][BudgetNext]_vars

(***************************************************************************)
(* chatdb.ts: the schema cache under concurrent query() calls.  A call is  *)
(* cut where the source awaits: the lookup runs from Date.now() to the     *)
(* cache hit or to the call of db.getSchemaText, the rest runs when the    *)
(* adapter answers.                                                        *)
(***************************************************************************)
MaxCalls == 2
MaxClock == 3

\* this.config.schemaCacheTTL, in clock ticks
schemaCacheTTL == 2

kSales ==
    <<"s","a","l","e","s">>

CacheNames == {kPublic, kSales}

CallIds == 1..MaxCalls

\* the schema text the adapter returns while the database holds schema v
DbSchemaText(v) == SchemaOfLines(v + 1)

NewCall ==
    [pc |-> "idle", name |-> <<>>, now |-> 0, fetched |-> FALSE, text |-> Nothing,
     stored |-> FALSE, cleared |-> FALSE]

CacheInit ==
    /\ cNow = 0
    /\ cCache = [n \in CacheNames |-> Nothing]
    /\ cFetches = [n \in CacheNames |-> 0]
    /\ cDb = 0
    /\ cOverlap = FALSE
    /\ cRefreshed = "no"
    /\ cCalls = [p \in CallIds |-> NewCall]
    /\ OthersIdle("cache")

\* an entry that never expires
CacheHit_NoExpiry(cached, now) == cached # Nothing

\* if (cached && now - cached.time < this.config.schemaCacheTTL)
CacheHit(cached, now) ==
    cached # Nothing /\ now - Val(cached).time < schemaCacheTTL

\* getCachedSchema up to its await: Date.now(), the cache test, and on a miss
\* the call of db.getSchemaText
CacheLookup(p, name) ==
    /\ cCalls[p].pc = "idle"
    /\ \A q \in CallIds : q < p => cCalls[q].pc # "idle"
    /\ LET now    == cNow
           cached == cCache[name]
           hit    == CacheHit(cached, now)
           seen   == [cCalls[p] EXCEPT !.name = name, !.now = now]
       IN  IF hit
           THEN /\ cCalls' = [cCalls EXCEPT ![p] =
                                  [seen EXCEPT !.pc = "have",
                                               !.text = Some(Val(cached).text)]]
                /\ UNCHANGED cFetches
                /\ cRefreshed' = IF cRefreshed = "pending" THEN "hit" ELSE cRefreshed
           ELSE /\ cCalls' = [cCalls EXCEPT ![p] =
                                  [seen EXCEPT !.pc = "fetching", !.fetched = TRUE]]
                /\ cFetches' = [cFetches EXCEPT ![name] = @ + 1]
                /\ cRefreshed' = IF cRefreshed = "pending" THEN "miss" ELSE cRefreshed
    /\ cOverlap' = (cOverlap \/ \E q \in CallIds :
                                     /\ cCalls[q].pc \in {"fetching", "answered"}
                                     /\ cCalls[q].name = name)
    /\ UNCHANGED <<cNow, cCache, cDb>>
    /\ UNCHANGED outsideCache

\* the database reads its schema for the adapter's query of call p; the text
\* is on its way back
CacheDbAnswer(p) ==
    /\ cCalls[p].pc = "fetching"
    /\ cCalls' = [cCalls EXCEPT ![p].pc = "answered",
                                ![p].text = Some(DbSchemaText(cDb))]
    /\ UNCHANGED <<cNow, cCache, cFetches, cDb, cOverlap, cRefreshed>>
    /\ UNCHANGED outsideCache

\* the await ends: this.schemaCache.set(schemaName, { text, time: now })
CacheFetchReturn(p) ==
    /\ cCalls[p].pc = "answered"
    /\ LET text == Val(cCalls[p].text)
       IN  /\ cCache' = [cCache EXCEPT ![cCalls[p].name] =
                             Some([text |-> text, time |-> cCalls[p].now])]
           /\ cCalls' = [cCalls EXCEPT ![p].pc = "have", ![p].stored = TRUE]
    /\ UNCHANGED <<cNow, cFetches, cDb, cOverlap, cRefreshed>>
    /\ UNCHANGED outsideCache

\* db.getSchemaText rejects: the call throws and the cache is left alone
CacheFetchFail(p) ==
    /\ cCalls[p].pc = "fetching"
    /\ cCalls' = [cCalls EXCEPT ![p].pc = "failed"]
    /\ UNCHANGED <<cNow, cCache, cFetches, cDb, cOverlap, cRefreshed>>
    /\ UNCHANGED outsideCache

\* refreshSchema(): this.schemaCache.clear(); the calls that stored an entry
\* are marked, their entry being gone if it was still there
CacheRefresh ==
    /\ cCache' = [n \in CacheNames |-> Nothing]
    /\ cCalls' = [p \in CallIds |->
                     IF cCalls[p].stored THEN [cCalls[p] EXCEPT !.cleared = TRUE]
                     ELSE cCalls[p]]
    /\ cRefreshed' = "pending"
    /\ UNCHANGED <<cNow, cFetches, cDb, cOverlap>>
    /\ UNCHANGED outsideCache

\* time passes
CacheTick ==
    /\ cNow < MaxClock
    /\ cNow' = cNow + 1
    /\ UNCHANGED <<cCache, cFetches, cDb, cOverlap, cRefreshed, cCalls>>
    /\ UNCHANGED outsideCache

\* the schema of the database changes: a table is added or dropped again
CacheDbChange ==
    /\ cDb' = 1 - cDb
    /\ UNCHANGED <<cNow, cCache, cFetches, cOverlap, cRefreshed, cCalls>>
    /\ UNCHANGED outsideCache

CacheNext ==
    \/ \E p \in CallIds, name \in CacheNames : CacheLookup(p, name)
    \/ \E p \in CallIds : CacheDbAnswer(p)
    \/ \E p \in CallIds : CacheFetchReturn(p)
    \/ \E p \in CallIds : CacheFetchFail(p)
    \/ CacheRefresh
    \/ CacheTick
    \/ CacheDbChange

SpecCache == CacheInit /\ [][CacheNext]_vars

(***************************************************************************)
(* Properties of buildMessages                                             *)
(***************************************************************************)
RECURSIVE SumTokens(_, _)
\* the estimated tokens of messages i.. of a message sequence
SumTokens(messages, i) ==
    IF i > Len(messages) THEN 0
    ELSE estimateTokens(messages[i].content) + SumTokens(messages, i + 1)

\* what the request costs: every message sent plus the response reserve
SentTokens == SumTokens(Val(bOut).messages, 1) + responseReserve

\* the tokens of the prompt without schema text, and of the question
BudgetRulesTokens == estimateTokens(buildSystemPrompt(bDialect, <<>>, bSchemaName))
BudgetUserTokens  == estimateTokens(bMessage)

\* the schema budget is at or above the 200-token floor
BudgetHasRoom == bMaxTokens - BudgetRulesTokens - BudgetUserTokens - 306 >= 200

\* C9 as claimed: for every schema text, history, question and context length
\* the messages sent plus the 256-token response reserve are within the
\* context length.
C9_AsClaimed == bOut # Nothing => SentTokens <= bMaxTokens

\* C9: the messages sent plus the response reserve are within the context
\* length exactly when the system prompt (with the truncated schema), the
\* question and the reserve are, which is the case whenever the context length
\* leaves the schema its 200-token floor; the history taken never makes the
\* request exceed the window, and a request that exceeds it carries no history.
C9_FitsWhenRoom ==
    bOut # Nothing =>
        LET stats == Val(bOut).stats
            base  == stats.systemTokens + stats.userTokens + responseReserve
        IN  /\ SentTokens = base + stats.historyTokens
            /\ (SentTokens <= bMaxTokens) <=> (base <= bMaxTokens)
            /\ BudgetHasRoom => SentTokens <= bMaxTokens
            /\ SentTokens > bMaxTokens => Len(Val(bOut).messages) = 2

\* a call whose schema was truncated and whose history was taken in part
C9_Witness ==
    /\ bOut # Nothing
    /\ BudgetHasRoom
    /\ Val(bOut).stats.schemaTruncated
    /\ Val(bOut).stats.historyMessages > 0
    /\ Val(bOut).stats.historyMessages < Len(bHistory)

(***************************************************************************)
(* Properties of the schema cache                                          *)
(***************************************************************************)
\* call p has looked its schema up
Started(p) == cCalls[p].pc # "idle"

\* call p has its schema text
HasText(p) == cCalls[p].pc = "have"

\* calls p and q, p first, ask for the same name less than the TTL apart, p
\* stored what it fetched and no refreshSchema() followed
WithinTTL(p, q) ==
    /\ p < q
    /\ HasText(p) /\ cCalls[p].stored /\ ~cCalls[p].cleared
    /\ Started(q)
    /\ cCalls[q].name = cCalls[p].name
    /\ cCalls[q].now - cCalls[p].now < schemaCacheTTL

\* C10 as claimed: two calls for one schema name within the TTL window,
\* sequential or overlapping, return identical text and trigger one fetch.
C10_AsClaimed ==
    \A p, q \in CallIds :
        WithinTTL(p, q) /\ HasText(q) =>
            ~cCalls[q].fetched /\ cCalls[q].text = cCalls[p].text

\* C10: as long as no call looks a name up while another call is fetching it,
\* two calls for one name within the TTL window return identical text and
\* trigger one fetch, and a call that finds no stored entry younger than the
\* TTL triggers one more; every call fetches at most once.
C10_SequentialCache ==
    /\ ~cOverlap =>
          /\ \A p, q \in CallIds :
                 WithinTTL(p, q) =>
                     /\ ~cCalls[q].fetched
                     /\ HasText(q) /\ cCalls[q].text = cCalls[p].text
          /\ \A q \in CallIds :
                 ( /\ Started(q)
                   /\ \A p \in CallIds :
                          (p < q /\ cCalls[p].name = cCalls[q].name /\ cCalls[p].stored)
                              => cCalls[q].now - cCalls[p].now >= schemaCacheTTL )
                     => cCalls[q].fetched
    /\ \A n \in CacheNames :
           cFetches[n] = Cardinality({p \in CallIds : cCalls[p].name = n /\ cCalls[p].fetched})

\* a later call served from the cache, within the TTL, after the schema of the
\* database changed
C10_Witness ==
    /\ ~cOverlap
    /\ WithinTTL(1, 2)
    /\ cCalls[2].now > cCalls[1].now
    /\ ~cCalls[2].fetched
    /\ cCalls[2].text # Some(DbSchemaText(cDb))

\* C11: the first call to look its schema up after refreshSchema() returned
\* fetches the text from the adapter, whatever fetch was in flight at the
\* refresh.
C11_FetchAfterRefresh == cRefreshed # "hit"

(***************************************************************************)
(* chatdb.ts: init(), as awaited first by every public asynchronous        *)
(* method.  The resolvers answer later, with an adapter or provider or     *)
(* with an error.                                                          *)
(***************************************************************************)
MaxCallers == 3

CallerIds == 1..MaxCallers

MaxCloses == 1

\* the public methods that begin with await this.init()
InitOps == {"query", "ask", "getSchema", "listSchemas", "listTables"}

\* init() returns at once, or hands out the promise in flight
StartsInit_NoMemo(initialized, promise) == ~initialized

\* neither if (this.initialized) return nor if (this.initPromise) return ...
StartsInit(initialized, promise) == ~initialized /\ promise = "null"

\* the init promise after its body threw: it stays in this.initPromise
AfterRejection_Forget(promise) == "null"

AfterRejection(promise) == "rejected"

\* close(): if (this.initialized) await this.db.close()
ClosesAdapter(initialized) == initialized

\* a public call that has not been made yet
NewCaller == [op |-> "none", pc |-> "idle", err |-> "none", late |-> FALSE]

\* new ChatDB(config)
InitInit ==
    /\ iInitialized = FALSE
    /\ iPromise = "null"
    /\ iDb = FALSE
    /\ iLlm = FALSE
    /\ iBody = "none"
    /\ iDbCalls = 0
    /\ iLlmCalls = 0
    /\ iCallers = [c \in CallerIds |-> NewCaller]
    /\ iError = "none"
    /\ iCloses = 0
    /\ iDbCloses = 0
    /\ OthersIdle("init")

\* a public method is called: init() runs to its first await, calling
\* resolveDatabaseAdapter when it starts the initialization
InitCall(c, op) ==
    /\ iCallers[c].pc = "idle"
    /\ \A d \in CallerIds : d < c => iCallers[d].pc # "idle"
    /\ iCallers' = [iCallers EXCEPT ![c] = [op |-> op, pc |-> "awaiting",
                                            err |-> "none",
                                            late |-> iError # "none"]]
    /\ IF StartsInit(iInitialized, iPromise)
       THEN /\ iPromise' = "pending"
            /\ iBody' = "awaitDb"
            /\ iDbCalls' = iDbCalls + 1
       ELSE UNCHANGED <<iPromise, iBody, iDbCalls>>
    /\ UNCHANGED <<iInitialized, iDb, iLlm, iLlmCalls, iError, iCloses, iDbCloses>>
    /\ UNCHANGED outsideInit

\* resolveDatabaseAdapter resolves: this.db is set, resolveLLMProvider called
InitDbResolved ==
    /\ iBody = "awaitDb"
    /\ iDb' = TRUE
    /\ iLlmCalls' = iLlmCalls + 1
    /\ iBody' = "awaitLlm"
    /\ UNCHANGED <<iInitialized, iPromise, iLlm, iDbCalls, iCallers>>
    /\ UNCHANGED <<iError, iCloses, iDbCloses>>
    /\ UNCHANGED outsideInit

\* resolveDatabaseAdapter rejects: the init promise is rejected
InitDbRejected ==
    /\ iBody = "awaitDb"
    /\ iBody' = "failed"
    /\ iPromise' = AfterRejection(iPromise)
    /\ iError' = "database"
    /\ UNCHANGED <<iInitialized, iDb, iLlm, iDbCalls, iLlmCalls, iCallers>>
    /\ UNCHANGED <<iCloses, iDbCloses>>
    /\ UNCHANGED outsideInit

\* resolveLLMProvider resolves: this.llm, this.defaultSchema, this.initialized
InitLlmResolved ==
    /\ iBody = "awaitLlm"
    /\ iLlm' = TRUE
    /\ iInitialized' = TRUE
    /\ iBody' = "done"
    /\ iPromise' = "fulfilled"
    /\ UNCHANGED <<iDb, iDbCalls, iLlmCalls, iCallers, iError, iCloses, iDbCloses>>
    /\ UNCHANGED outsideInit

\* resolveLLMProvider rejects: the init promise is rejected
InitLlmRejected ==
    /\ iBody = "awaitLlm"
    /\ iBody' = "failed"
    /\ iPromise' = AfterRejection(iPromise)
    /\ iError' = "provider"
    /\ UNCHANGED <<iInitialized, iDb, iLlm, iDbCalls, iLlmCalls, iCallers>>
    /\ UNCHANGED <<iCloses, iDbCloses>>
    /\ UNCHANGED outsideInit

\* await this.init() ends for a caller: the method goes on
InitProceed(c) ==
    /\ iCallers[c].pc = "awaiting"
    /\ iPromise = "fulfilled"
    /\ iCallers' = [iCallers EXCEPT ![c].pc = "past"]
    /\ UNCHANGED <<iInitialized, iPromise, iDb, iLlm, iBody, iDbCalls, iLlmCalls>>
    /\ UNCHANGED <<iError, iCloses, iDbCloses>>
    /\ UNCHANGED outsideInit

\* await this.init() throws for a caller what the promise was rejected with
InitThrow(c) ==
    /\ iCallers[c].pc = "awaiting"
    /\ iPromise = "rejected"
    /\ iCallers' = [iCallers EXCEPT ![c].pc = "threw", ![c].err = iError]
    /\ UNCHANGED <<iInitialized, iPromise, iDb, iLlm, iBody, iDbCalls, iLlmCalls>>
    /\ UNCHANGED <<iError, iCloses, iDbCloses>>
    /\ UNCHANGED outsideInit

\* close() is called: the adapter is closed when the instance is initialized
InitClose ==
    /\ iCloses < MaxCloses
    /\ iCloses' = iCloses + 1
    /\ iDbCloses' = (IF ClosesAdapter(iInitialized) THEN iDbCloses + 1 ELSE iDbCloses)
    /\ UNCHANGED <<iInitialized, iPromise, iDb, iLlm, iBody, iDbCalls, iLlmCalls>>
    /\ UNCHANGED <<iCallers, iError>>
    /\ UNCHANGED outsideInit

InitNext ==
    \/ \E c \in CallerIds, op \in InitOps : InitCall(c, op)
    \/ InitDbResolved
    \/ InitDbRejected
    \/ InitLlmResolved
    \/ InitLlmRejected
    \/ \E c \in CallerIds : InitProceed(c)
    \/ \E c \in CallerIds : InitThrow(c)
    \/ InitClose

SpecInit == InitInit /\ [][InitNext]_vars

(***************************************************************************)
(* Properties of init()                                                    *)
(***************************************************************************)
\* some public method has been called
InitAsked == \E c \in CallerIds : iCallers[c].pc # "idle"

\* C12 as claimed: once a method was called and the initialization has
\* ended, each resolver has been invoked exactly once.
C12_AsClaimed ==
    InitAsked /\ iBody \in {"done", "failed"} => iDbCalls = 1 /\ iLlmCalls = 1

\* C12: the constructor invokes no resolver; whatever calls overlap, each
\* resolver is invoked at most once, resolveDatabaseAdapter exactly once as
\* soon as a method was called and resolveLLMProvider exactly once when the
\* adapter was resolved (not at all when that failed); a call goes past init
\* only with adapter and provider set, and after a failed initialization no
\* call ever does.
C12_InitOnce ==
    /\ iDbCalls <= 1 /\ iLlmCalls <= 1
    /\ ~InitAsked => iDbCalls = 0 /\ iLlmCalls = 0
    /\ InitAsked => iDbCalls = 1
    /\ iLlmCalls = (IF iDb THEN 1 ELSE 0)
    /\ iInitialized => iDbCalls = 1 /\ iLlmCalls = 1
    /\ \A c \in CallerIds :
           iCallers[c].pc = "past" => iInitialized /\ iDb /\ iLlm
    /\ iPromise = "rejected" => \A c \in CallerIds : iCallers[c].pc # "past"

\* two calls of different methods wait for the one initialization in flight
C12_Witness ==
    /\ iBody = "awaitLlm"
    /\ iCallers[1].pc = "awaiting" /\ iCallers[2].pc = "awaiting"
    /\ iCallers[1].op # iCallers[2].op
    /\ iDbCalls = 1 /\ iLlmCalls = 1

\* the body of the init promise has thrown
InitFailed == iError # "none"

\* what a failed initialization leaves for good
FailedInitKept ==
    /\ iPromise = "rejected"
    /\ ~iInitialized
    /\ iDbCalls = 1
    /\ iLlmCalls = (IF iError = "provider" THEN 1 ELSE 0)
    /\ \A c \in CallerIds :
           /\ iCallers[c].pc \in {"idle", "awaiting", "threw"}
           /\ iCallers[c].pc = "threw" => iCallers[c].err = iError

\* C29: once the initialization has failed, the rejected promise stays: every
\* call of a public method, made before or after the failure, can only throw
\* the error of that failure, no resolver is invoked again, and close() calls
\* no adapter.
C29_FailedInitMemoized ==
    /\ [](InitFailed => FailedInitKept)
    /\ [][(InitFailed) => (/\ iError' = iError
                           /\ iDbCalls' = iDbCalls
                           /\ iLlmCalls' = iLlmCalls
                           /\ iDbCloses' = iDbCloses)]_vars

\* the provider could not be resolved although the adapter was; a call made
\* before the failure and a call made after it have thrown the same error,
\* and a close() after the failure closed nothing
C29_Witness ==
    /\ iError = "provider" /\ iDb
    /\ \E c, d \in CallerIds :
           /\ iCallers[c].pc = "threw" /\ ~iCallers[c].late
           /\ iCallers[d].pc = "threw" /\ iCallers[d].late
           /\ iCallers[c].err = iCallers[d].err
    /\ iCloses > 0 /\ iDbCloses = 0

(***************************************************************************)
(* chatdb.ts: ask(), query() with a history of the caller, clearHistory(). *)
(* Arrays are objects: ask() hands query() the array this.history refers   *)
(* to at the call, buildMessages reads that array after the awaits of      *)
(* query(), and the push after the await goes to the array this.history    *)
(* refers to then.                                                         *)
(***************************************************************************)
MaxAsks == 2

AskIds == 1..MaxAsks

\* array 0 belongs to a caller of query(); the others serve this.history
ArrayIds == 0..(MaxAsks + 1)

AskContextLength == 4096

\* the message of call c
Question(c) == <<"q">> \o NumToStr(c)

\* what JSON.parse(result.content) gives in call c: the provider answers
\* with a SELECT, an explanation and no chart type
AnswerOf(c) ==
    JObject(JStr(kSELECT \o <<" ">> \o NumToStr(c)), JStr(<<"a">> \o NumToStr(c)), JUndefined)

\* the result query() resolves with in call c: sql is safeSql, the cleaned
\* SQL after ensureLimit, chartType is parsed.chartType ?? "table"
ResultOf(c) ==
    [sql |-> ensureLimit(CleanSQL(AnswerOf(c).sql.s, kPublic), DefaultMaxRows),
     explanation |-> AnswerOf(c).explanation.s,
     chartType |-> Coalesce(AnswerOf(c).chartType, JStr(kTable))]

UserTurn(c) == [role |-> "user", content |-> Question(c), data |-> Nothing]
AssistantTurn(c) ==
    [role |-> "assistant", content |-> ResultOf(c).explanation, data |-> Some(ResultOf(c))]

\* the history a caller of query() supplies: one earlier exchange
SuppliedHistory == <<UserTurn(0), AssistantTurn(0)>>

\* this.history.push(...) with the assistant turn alone
AskPush_OnlyAnswer(history, c) == Append(history, AssistantTurn(c))

\* this.history.push({ role: "user", ... }, { role: "assistant", ... })
AskPush(history, c) == history \o <<UserTurn(c), AssistantTurn(c)>>

Reverse(h) == [i \in 1..Len(h) |-> h[Len(h) + 1 - i]]

\* history.reverse() on the array itself
ArrayAfterBuild_InPlace(history) == Reverse(history)

\* the array handed to buildMessages once it returned:
\* [...history].reverse() reverses a copy
ArrayAfterBuild(history) == history

\* the stages of query() that can throw before and after the provider is called
EarlyStages == {"init", "schema"}
LateStages  == {"provider", "parse", "guard", "execute"}

NewAsk ==
    [kind |-> "none", pc |-> "idle", ref |-> 0, messages |-> Nothing,
     stage |-> "none", kept |-> FALSE]

AskInit ==
    /\ aThis = 1
    /\ aArrays = [a \in ArrayIds |-> IF a = 0 THEN SuppliedHistory ELSE <<>>]
    /\ aCalls = [c \in AskIds |-> NewAsk]
    /\ aAfterClear = 0
    /\ OthersIdle("ask")

\* ask(message): this.query(message, { history: this.history }) is called
AskCall(c) ==
    /\ aCalls[c].pc = "idle"
    /\ \A d \in AskIds : d < c => aCalls[d].pc # "idle"
    /\ aCalls' = [aCalls EXCEPT ![c].kind = "ask", ![c].pc = "started",
                                ![c].ref = aThis]
    /\ aAfterClear' = IF aAfterClear = -1 THEN c ELSE aAfterClear
    /\ UNCHANGED <<aThis, aArrays>>
    /\ UNCHANGED outsideAsk

\* query(message, { history }) is called with the array of the caller
AskQueryCall(c) ==
    /\ aCalls[c].pc = "idle"
    /\ \A d \in AskIds : d < c => aCalls[d].pc # "idle"
    /\ aCalls' = [aCalls EXCEPT ![c].kind = "query", ![c].pc = "started",
                                ![c].ref = 0]
    /\ UNCHANGED <<aThis, aArrays, aAfterClear>>
    /\ UNCHANGED outsideAsk

\* query() after its awaits: buildMessages reads the array, llm.generate is
\* called with the messages
AskBuild(c) ==
    /\ aCalls[c].pc = "started"
    /\ LET history == aArrays[aCalls[c].ref]
           built   == buildMessages("postgresql", SchemaOfLines(3), history,
                                    Question(c), AskContextLength, kPublic)
       IN  /\ aCalls' = [aCalls EXCEPT ![c].pc = "sent",
                                       ![c].messages = Some(built.messages)]
           /\ aArrays' = [aArrays EXCEPT ![aCalls[c].ref] = ArrayAfterBuild(history)]
    /\ UNCHANGED <<aThis, aAfterClear>>
    /\ UNCHANGED outsideAsk

\* query() resolves; ask() pushes the two turns and returns the result
AskSucceed(c) ==
    /\ aCalls[c].pc = "sent"
    /\ aCalls' = [aCalls EXCEPT ![c].pc = "done",
                                ![c].kept = (aCalls[c].kind = "ask")]
    /\ aArrays' = IF aCalls[c].kind = "ask"
                  THEN [aArrays EXCEPT ![aThis] = AskPush(aArrays[aThis], c)]
                  ELSE aArrays
    /\ UNCHANGED <<aThis, aAfterClear>>
    /\ UNCHANGED outsideAsk

\* query() throws at one of its stages; ask() throws with it
AskFail(c, stage) ==
    /\ \/ aCalls[c].pc = "started" /\ stage \in EarlyStages
       \/ aCalls[c].pc = "sent" /\ stage \in LateStages
    /\ aCalls' = [aCalls EXCEPT ![c].pc = "failed", ![c].stage = stage]
    /\ UNCHANGED <<aThis, aArrays, aAfterClear>>
    /\ UNCHANGED outsideAsk

\* an array no call still has to read and this.history does not refer to
FreeArrays ==
    {a \in ArrayIds \ {0, aThis} :
        \A c \in AskIds : aCalls[c].pc = "started" => aCalls[c].ref # a}

\* clearHistory(): this.history = []
AskClear ==
    /\ \E a \in FreeArrays :
          /\ \A b \in FreeArrays : a <= b
          /\ aThis' = a
          /\ aArrays' = [aArrays EXCEPT ![a] = <<>>]
    /\ aCalls' = [c \in AskIds |-> [aCalls[c] EXCEPT !.kept = FALSE]]
    /\ aAfterClear' = -1
    /\ UNCHANGED outsideAsk

AskNext ==
    \/ \E c \in AskIds : AskCall(c)
    \/ \E c \in AskIds : AskQueryCall(c)
    \/ \E c \in AskIds : AskBuild(c)
    \/ \E c \in AskIds : AskSucceed(c)
    \/ \E c \in AskIds, stage \in EarlyStages \cup LateStages : AskFail(c, stage)
    \/ AskClear

SpecAsk == AskInit /\ [][AskNext]_vars

(***************************************************************************)
(* Properties of the conversation history                                  *)
(***************************************************************************)
\* the content of this.history
History == aArrays[aThis]

\* C13: the internal history has even length, its roles alternate user,
\* assistant from a user turn on, and it is made of one pair per ask() that
\* succeeded since the last clearHistory(): the question of the call followed
\* at once by the assistant turn carrying its result.
C13_HistoryAlternates ==
    /\ Len(History) % 2 = 0
    /\ \A i \in 1..Len(History) :
           History[i].role = (IF i % 2 = 1 THEN "user" ELSE "assistant")
    /\ \A k \in 1..(Len(History) \div 2) :
           \E c \in AskIds :
               /\ aCalls[c].kind = "ask" /\ aCalls[c].pc = "done" /\ aCalls[c].kept
               /\ History[2 * k - 1] = UserTurn(c)
               /\ History[2 * k] = AssistantTurn(c)
    /\ Len(History) = 2 * Cardinality({c \in AskIds : aCalls[c].kept})

\* two overlapping ask() calls, neither seeing the other, the second done first
C13_Witness ==
    /\ aCalls[1].kind = "ask" /\ aCalls[2].kind = "ask"
    /\ aCalls[1].pc = "done" /\ aCalls[2].pc = "done"
    /\ Len(Val(aCalls[1].messages)) = 2 /\ Len(Val(aCalls[2].messages)) = 2
    /\ History = <<UserTurn(2), AssistantTurn(2), UserTurn(1), AssistantTurn(1)>>

\* C14: the first ask() called after clearHistory() returned sends the
\* provider two messages, the system prompt and its question.
C14_NextAskStartsFresh ==
    \A c \in AskIds :
        aAfterClear = c /\ aCalls[c].messages # Nothing =>
            Len(Val(aCalls[c].messages)) = 2

\* C15: a step in which a call fails leaves this.history and every array as
\* they were, and no step of a query() call changes them.
C15_FailureKeepsHistory ==
    [][ /\ (\E c \in AskIds : aCalls[c].pc # "failed" /\ aCalls'[c].pc = "failed")
            => (aThis' = aThis /\ aArrays' = aArrays)
        /\ (\E c \in AskIds : aCalls'[c].kind = "query" /\ aCalls'[c] # aCalls[c])
            => (aThis' = aThis /\ aArrays' = aArrays) ]_vars

\* a query() that used the history of its caller and an ask() that failed at
\* execution: the array of the caller and this.history are as before
C15_Witness ==
    /\ aCalls[1].kind = "query" /\ aCalls[1].pc = "done"
    /\ Len(Val(aCalls[1].messages)) = 4
    /\ aArrays[0] = SuppliedHistory
    /\ aCalls[2].kind = "ask" /\ aCalls[2].pc = "failed" /\ aCalls[2].stage = "execute"
    /\ History = <<>>

(***************************************************************************)
(* Properties of the provider's answer: parsing, the guard's rejection and *)
(* the chart type of the result                                            *)
(***************************************************************************)

\* the property is absent, null or the empty string
Lacks(v) == v.t \in {"undefined", "null"} \/ (v.t = "string" /\ v.s = <<>>)

\* the parsed answer is no object, or lacks sql or explanation
LacksAnswer ==
    \/ qContent.shape # "object"
    \/ Lacks(qContent.sql)
    \/ Lacks(qContent.explanation)

\* C16: content that is not JSON fails with the ChatDBError 'Failed to parse
\* LLM response as JSON', and JSON of any shape that lacks a non-empty sql or
\* explanation fails with the ChatDBError 'Invalid AI response: missing sql
\* or explanation'; in both cases nothing is executed.
C16_ParseFailureIsTyped ==
    qPc # "generated" =>
        /\ ~qContent.json =>
               /\ qPc = "failed" /\ qExecuted = <<>>
               /\ Val(qErr).type = "ChatDBError"
               /\ Head(Val(qErr).message) = "Failed to parse LLM response as JSON"
        /\ (qContent.json /\ LacksAnswer) =>
               qPc = "failed" /\ qErr = Some(ErrMissing) /\ qExecuted = <<>>

\* the guard rejects the cleaned SQL
GuardRejects == qPc = "cleaned" /\ ~validateSQL(qSql, qCfg.allowWrites).valid

\* the call failed with a ValidationError
FailedValidation ==
    qPc = "failed" /\ qErr # Nothing /\ Val(qErr).type = "ValidationError"

\* C17: when the guard rejects the SQL the call fails with a ValidationError
\* whose message is the guard's reason and whose sql is the rejected SQL;
\* nothing is or will be executed, no result is returned, and the schema
\* cache, the history and the initialization state stay as they were.
C17_GuardRejection ==
    /\ [](FailedValidation => (qExecuted = <<>> /\ qResult = Nothing))
    /\ [][GuardRejects =>
            /\ qPc' = "failed"
            /\ qErr' = Some([type |-> "ValidationError",
                             message |-> validateSQL(qSql, qCfg.allowWrites).error,
                             sql |-> qSql])
            /\ qExecuted' = <<>>
            /\ UNCHANGED <<cacheVars, askVars, initVars>>]_vars

\* a DROP came back from the provider and the guard rejected it
C17_Witness ==
    /\ FailedValidation
    /\ MatchAtCI(Val(qErr).sql, 1, <<"D","R","O","P">>)
    /\ Val(qErr).message # <<>>
    /\ qCfg.allowWrites # "true"

\* C18: every returned result has a chartType out of bar, line, pie, table
\* and number, whatever chartType the provider's JSON holds.
C18_ChartTypeKnown ==
    qResult # Nothing =>
        /\ Val(qResult).chartType.t = "string"
        /\ Val(qResult).chartType.s \in ChartTypes

(***************************************************************************)
(* db/registry.ts: detectDialect and resolveDatabaseAdapter                *)
(***************************************************************************)
\* String.prototype.startsWith(w) and endsWith(w)
startsWith(s, w) == MatchAt(s, 1, w)
endsWith(s, w) == Len(w) <= Len(s) /\ MatchAt(s, Len(s) - Len(w) + 1, w)

\* String.prototype.slice(n)
sliceFrom(s, n) == SubSeq(s, n + 1, Len(s))

kPostgresqlScheme ==
    <<"p","o","s","t","g","r","e","s","q","l",":","/","/">>
kPostgresScheme ==
    <<"p","o","s","t","g","r","e","s",":","/","/">>
kMysqlScheme ==
    <<"m","y","s","q","l",":","/","/">>
kSqliteScheme ==
    <<"s","q","l","i","t","e",":","/","/">>
kPgScheme ==
    <<"p","g",":","/","/">>
kMariadbScheme ==
    <<"m","a","r","i","a","d","b",":","/","/">>
kDotSqlite ==
    <<".","s","q","l","i","t","e">>
kDotSqlite3 ==
    <<".","s","q","l","i","t","e","3">>
kDotDb ==
    <<".","d","b">>
kDotSlash == <<".", "/">>
kSlash == <<"/">>

\* detectDialect with the suffix tests ahead of the scheme tests
detectDialect_SuffixFirst(url) ==
    IF \/ endsWith(url, kDotSqlite)
       \/ endsWith(url, kDotSqlite3)
       \/ endsWith(url, kDotDb)
       \/ startsWith(url, kSqliteScheme)
       \/ startsWith(url, kDotSlash)
       \/ startsWith(url, kSlash)
    THEN Some("sqlite")
    ELSE IF startsWith(url, kPostgresqlScheme) \/ startsWith(url, kPostgresScheme)
    THEN Some("postgresql")
    ELSE IF startsWith(url, kMysqlScheme)
    THEN Some("mysql")
    ELSE Nothing

\* detectDialect(url): the dialect, or Nothing where it throws
detectDialect(url) ==
    IF startsWith(url, kPostgresqlScheme) \/ startsWith(url, kPostgresScheme)
    THEN Some("postgresql")
    ELSE IF startsWith(url, kMysqlScheme)
    THEN Some("mysql")
    ELSE IF \/ endsWith(url, kDotSqlite)
            \/ endsWith(url, kDotSqlite3)
            \/ endsWith(url, kDotDb)
            \/ startsWith(url, kSqliteScheme)
            \/ startsWith(url, kDotSlash)
            \/ startsWith(url, kSlash)
    THEN Some("sqlite")
    ELSE Nothing

\* ChatDBError("Cannot detect database dialect from: ...")
ErrCannotDetect(url) ==
    [type |-> "ChatDBError", message |-> "Cannot detect database dialect", about |-> url]
\* ChatDBError("Unsupported database dialect: ...")
ErrUnsupported(dialect) ==
    [type |-> "ChatDBError", message |-> "Unsupported database dialect", about |-> dialect]

DefaultPoolSize == 5
DefaultTimeout == 10000
SqliteSchemeLength == 9

\* the start, the middle and the end of the connection strings tried
UrlHeads == {
    <<>>, kPostgresqlScheme, kPostgresScheme, kMysqlScheme, kSqliteScheme,
    kPgScheme, kMariadbScheme, kDotSlash, kSlash,
    <<"P","O","S","T","G","R","E","S",":","/","/">>,
    <<"f","t","p",":","/","/">> }
UrlNames == { <<"h">>, <<"h", "/", "d">> }
UrlTails == {
    <<>>, kDotSqlite, kDotSqlite3, kDotDb,
    <<".","D","B">>,
    <<".","t","x","t">> }
ResolveUrls == {h \o n \o t : h \in UrlHeads, n \in UrlNames, t \in UrlTails}

\* the dialect field: absent, null, one of DatabaseDialect, or a value the
\* type does not allow
ConfigDialects == {"undefined", "null", "postgresql", "mysql", "sqlite", "oracle"}

\* the poolSize field, 0 when absent
ConfigPoolSizes == {0, 10}

\* the timeout argument, 0 when omitted
ResolveTimeouts == {0, 5000}

\* config: a connection string, or a DatabaseConfig object
ResolveConfigs ==
    {[isObject |-> FALSE, url |-> u, dialect |-> "undefined", poolSize |-> 0] :
         u \in ResolveUrls}
    \cup {[isObject |-> TRUE, url |-> u, dialect |-> d, poolSize |-> n] :
               u \in ResolveUrls, d \in ConfigDialects, n \in ConfigPoolSizes}

ResolveInit ==
    /\ OthersIdle("resolve")
    /\ rConfig \in ResolveConfigs
    /\ rTimeout \in ResolveTimeouts
    /\ rPc = "called"
    /\ rDialect = ""
    /\ rAdapter = Nothing
    /\ rErr = Nothing

\* lines 27 to 29: url, poolSize, and the dialect: the explicit one, else the
\* detected one
ResolveDetect ==
    /\ rPc = "called"
    /\ IF rConfig.isObject /\ rConfig.dialect \notin {"undefined", "null"}
       THEN rDialect' = rConfig.dialect /\ rPc' = "detected" /\ UNCHANGED rErr
       ELSE LET detected == detectDialect(rConfig.url)
            IN  IF detected = Nothing
                THEN /\ rPc' = "failed"
                     /\ rErr' = Some(ErrCannotDetect(rConfig.url))
                     /\ UNCHANGED rDialect
                ELSE /\ rPc' = "detected"
                     /\ rDialect' = Val(detected)
                     /\ UNCHANGED rErr
    /\ UNCHANGED <<rConfig, rTimeout, rAdapter, outsideResolve>>

\* lines 31 to 47: the switch on the dialect
ResolveConstruct ==
    /\ rPc = "detected"
    /\ LET url      == rConfig.url
           poolSize == IF rConfig.poolSize = 0 THEN DefaultPoolSize ELSE rConfig.poolSize
           timeout  == IF rTimeout = 0 THEN DefaultTimeout ELSE rTimeout
       IN  CASE rDialect = "postgresql" ->
                  /\ rAdapter' = Some([kind |-> "PostgresAdapter", url |-> url,
                                       poolSize |-> poolSize, timeout |-> timeout])
                  /\ rPc' = "resolved" /\ UNCHANGED rErr
             [] rDialect = "mysql" ->
                  /\ rAdapter' = Some([kind |-> "MySQLAdapter", url |-> url,
                                       poolSize |-> poolSize, timeout |-> timeout])
                  /\ rPc' = "resolved" /\ UNCHANGED rErr
             [] rDialect = "sqlite" ->
                  /\ rAdapter' = Some([kind |-> "SQLiteAdapter",
                                       url |-> IF startsWith(url, kSqliteScheme)
                                               THEN sliceFrom(url, SqliteSchemeLength)
                                               ELSE url,
                                       poolSize |-> 0, timeout |-> 0])
                  /\ rPc' = "resolved" /\ UNCHANGED rErr
             [] OTHER ->
                  /\ rErr' = Some(ErrUnsupported(rDialect))
                  /\ rPc' = "failed" /\ UNCHANGED rAdapter
    /\ UNCHANGED <<rConfig, rTimeout, rDialect, outsideResolve>>

ResolveNext == ResolveDetect \/ ResolveConstruct

SpecResolve == ResolveInit /\ [][ResolveNext]_vars

(***************************************************************************)
(* Properties of resolveDatabaseAdapter                                    *)
(***************************************************************************)
\* url begins with w, url ends with w
Begins(url, w) == Len(url) >= Len(w) /\ SubSeq(url, 1, Len(w)) = w
Ends(url, w) == Len(url) >= Len(w) /\ SubSeq(url, Len(url) - Len(w) + 1, Len(url)) = w

\* the call is over
Resolved == rPc \in {"resolved", "failed"}

\* the config carries a dialect of its own
ExplicitDialect == rConfig.isObject /\ rConfig.dialect \notin {"undefined", "null"}

\* the adapter class of each dialect
AdapterOf(dialect) ==
    CASE dialect = "postgresql" -> "PostgresAdapter"
      [] dialect = "mysql" -> "MySQLAdapter"
      [] dialect = "sqlite" -> "SQLiteAdapter"
      [] OTHER -> "none"

\* the dialect the rules name for the config, "none" where they name none
RuledDialect ==
    LET url == rConfig.url
    IN  IF ExplicitDialect THEN rConfig.dialect
        ELSE IF Begins(url, kPostgresqlScheme) \/ Begins(url, kPostgresScheme)
        THEN "postgresql"
        ELSE IF Begins(url, kMysqlScheme) THEN "mysql"
        ELSE IF \/ Ends(url, kDotSqlite) \/ Ends(url, kDotSqlite3) \/ Ends(url, kDotDb)
                \/ Begins(url, kSqliteScheme) \/ Begins(url, kDotSlash)
                \/ Begins(url, kSlash)
        THEN "sqlite"
        ELSE "none"

\* the call gave an adapter of this class and no error
GaveAdapter(kind) ==
    rPc = "resolved" /\ rErr = Nothing /\ rAdapter # Nothing /\ Val(rAdapter).kind = kind

\* the call threw a ChatDBError and constructed nothing
GaveChatDBError ==
    rPc = "failed" /\ rAdapter = Nothing /\ rErr # Nothing /\ Val(rErr).type = "ChatDBError"

\* C19: the outcome is a function of the config: an explicit dialect decides
\* the adapter whatever the URL; otherwise postgresql:// and postgres:// give
\* PostgreSQL, mysql:// gives MySQL, the suffixes .sqlite, .sqlite3, .db and
\* the prefixes sqlite://, ./ and / give SQLite, the schemes being tested
\* before the suffixes; every other input throws a ChatDBError and no adapter
\* is constructed, and none is constructed before the dialect is known.
C19_Classification ==
    /\ ~Resolved => rAdapter = Nothing
    /\ Resolved =>
          IF AdapterOf(RuledDialect) = "none"
          THEN GaveChatDBError
          ELSE GaveAdapter(AdapterOf(RuledDialect))

\* a mysql:// URL that ends in .db went to MySQL
C19_Witness ==
    /\ ~rConfig.isObject
    /\ Begins(rConfig.url, kMysqlScheme)
    /\ Ends(rConfig.url, kDotDb)
    /\ GaveAdapter("MySQLAdapter")

\* C20: a plain connection string starting with postgresql://, postgres:// or
\* pg:// resolves to the PostgreSQL adapter, and one starting with mysql:// or
\* mariadb:// resolves to the MySQL adapter.
C20_DocumentedPrefixes ==
    (Resolved /\ ~rConfig.isObject) =>
        /\ (\/ Begins(rConfig.url, kPostgresqlScheme)
            \/ Begins(rConfig.url, kPostgresScheme)
            \/ Begins(rConfig.url, kPgScheme)) => GaveAdapter("PostgresAdapter")
        /\ (\/ Begins(rConfig.url, kMysqlScheme)
            \/ Begins(rConfig.url, kMariadbScheme)) => GaveAdapter("MySQLAdapter")

(***************************************************************************)
(* llm/registry.ts: resolveLLMProvider, and the constructors it calls      *)
(***************************************************************************)
kSkAnt ==
    <<"s","k","-","a","n","t","-">>
kSk ==
    <<"s","k","-">>
kHttp ==
    <<"h","t","t","p">>
kOpenAIUrl ==
    <<"h","t","t","p","s",":","/","/","a","p","i",".","o","p","e","n","a","i",".","c","o","m">>
kOllamaUrl ==
    <<"h","t","t","p",":","/","/","l","o","c","a","l","h","o","s","t",":","1","1","4","3","4">>

\* an optional string is truthy
Given(o) == o # Nothing /\ Val(o) # <<>>

\* o ?? d for an optional string
OrElse(o, d) == IF o = Nothing THEN d ELSE Val(o)

\* url.replace(/\/$/, "")
StripTrailingSlash(u) ==
    IF Len(u) > 0 /\ u[Len(u)] = "/" THEN SubSeq(u, 1, Len(u) - 1) ELSE u

\* the class selected and the config handed to its constructor; class
\* "throw" where resolveLLMProvider throws
Selection(class, apiKey, url) == [class |-> class, apiKey |-> apiKey, url |-> url]

\* SelectLLM with the sk- test ahead of the sk-ant- test
SelectLLM_GenericFirst(config) ==
    IF ~config.isObject
    THEN IF startsWith(config.text, kSk)
         THEN Selection("openai", Some(config.text), Nothing)
         ELSE IF startsWith(config.text, kSkAnt)
         THEN Selection("anthropic", Some(config.text), Nothing)
         ELSE IF startsWith(config.text, kHttp)
         THEN Selection("openai-compatible", Nothing, Some(config.text))
         ELSE Selection("throw", Nothing, Nothing)
    ELSE IF config.provider \in {"openai", "anthropic", "openai-compatible"}
         THEN Selection(config.provider, config.apiKey, config.url)
         ELSE IF config.apiKey # Nothing /\ startsWith(Val(config.apiKey), kSk)
         THEN Selection("openai", config.apiKey, config.url)
         ELSE IF config.apiKey # Nothing /\ startsWith(Val(config.apiKey), kSkAnt)
         THEN Selection("anthropic", config.apiKey, config.url)
         ELSE IF Given(config.url) /\ ~Given(config.apiKey)
         THEN Selection("openai-compatible", config.apiKey, config.url)
         ELSE IF Given(config.url) /\ Given(config.apiKey)
         THEN Selection("openai", config.apiKey, config.url)
         ELSE Selection("throw", Nothing, Nothing)

\* the chain of tests of resolveLLMProvider
SelectLLM(config) ==
    IF ~config.isObject
    THEN IF startsWith(config.text, kSkAnt)
         THEN Selection("anthropic", Some(config.text), Nothing)
         ELSE IF startsWith(config.text, kSk)
         THEN Selection("openai", Some(config.text), Nothing)
         ELSE IF startsWith(config.text, kHttp)
         THEN Selection("openai-compatible", Nothing, Some(config.text))
         ELSE Selection("throw", Nothing, Nothing)
    ELSE IF config.provider \in {"openai", "anthropic", "openai-compatible"}
         THEN Selection(config.provider, config.apiKey, config.url)
         ELSE IF config.apiKey # Nothing /\ startsWith(Val(config.apiKey), kSkAnt)
         THEN Selection("anthropic", config.apiKey, config.url)
         ELSE IF config.apiKey # Nothing /\ startsWith(Val(config.apiKey), kSk)
         THEN Selection("openai", config.apiKey, config.url)
         ELSE IF Given(config.url) /\ ~Given(config.apiKey)
         THEN Selection("openai-compatible", config.apiKey, config.url)
         ELSE IF Given(config.url) /\ Given(config.apiKey)
         THEN Selection("openai", config.apiKey, config.url)
         ELSE Selection("throw", Nothing, Nothing)

\* ChatDBError("Cannot auto-detect LLM provider from string ...") and
\* ChatDBError("Cannot determine LLM provider ...")
ErrCannotSelect(isObject) ==
    [type |-> "ChatDBError",
     message |-> IF isObject THEN "Cannot determine LLM provider"
                 ELSE "Cannot auto-detect LLM provider from string",
     provider |-> ""]
\* LLMError("... API key is required", this.name)
ErrKeyRequired(name) ==
    [type |-> "LLMError", message |-> "API key is required", provider |-> name]

\* the constructors: the provider, or Nothing where the constructor throws
NewProvider(class, arg) ==
    CASE class = "openai" ->
           IF ~Given(arg.apiKey) THEN Nothing
           ELSE Some([name |-> "openai",
                      baseUrl |-> StripTrailingSlash(OrElse(arg.url, kOpenAIUrl)),
                      apiKey |-> Val(arg.apiKey)])
      [] class = "anthropic" ->
           IF ~Given(arg.apiKey) THEN Nothing
           ELSE Some([name |-> "anthropic", baseUrl |-> <<>>, apiKey |-> Val(arg.apiKey)])
      [] OTHER ->
           Some([name |-> "openai-compatible",
                 baseUrl |-> StripTrailingSlash(OrElse(arg.url, kOllamaUrl)),
                 apiKey |-> <<>>])

\* the apiKey and url values tried
LlmKeys == {
    <<>>, kSkAnt, kSk, kSkAnt \o <<"a">>, kSk \o <<"a">>, kSk \o <<"a", "n", "t">>,
    <<"S", "K", "-", "a">>, <<"k", "e", "y">> }
LlmUrls == { <<>>, kHttp \o <<":", "/", "/", "h">>, kHttp \o <<"s", ":", "/", "/", "h", "/">> }
LlmTexts == LlmKeys \cup LlmUrls \cup { <<"h">>, <<"f", "t", "p", ":", "/", "/", "h">> }

\* the provider field: absent, or one of LLMProviderType
ConfigProviders == {"undefined", "openai", "anthropic", "openai-compatible"}

Optional(S) == {Nothing} \cup {Some(x) : x \in S}

\* config: a string, or an LLMProviderConfig object
LlmConfigs ==
    {[isObject |-> FALSE, text |-> t, provider |-> "undefined", apiKey |-> Nothing,
      url |-> Nothing] : t \in LlmTexts}
    \cup {[isObject |-> TRUE, text |-> <<>>, provider |-> pr, apiKey |-> k, url |-> u] :
               pr \in ConfigProviders, k \in Optional(LlmKeys), u \in Optional(LlmUrls)}

LlmInit ==
    /\ OthersIdle("llm")
    /\ lConfig \in LlmConfigs
    /\ lPc = "called"
    /\ lClass = ""
    /\ lArg = <<>>
    /\ lProvider = Nothing
    /\ lErr = Nothing

\* the tests up to the import of the selected class, or the throw
LlmSelect ==
    /\ lPc = "called"
    /\ LET sel == SelectLLM(lConfig)
       IN  IF sel.class = "throw"
           THEN /\ lPc' = "failed"
                /\ lErr' = Some(ErrCannotSelect(lConfig.isObject))
                /\ UNCHANGED <<lClass, lArg>>
           ELSE /\ lPc' = "selected"
                /\ lClass' = sel.class
                /\ lArg' = [apiKey |-> sel.apiKey, url |-> sel.url]
                /\ UNCHANGED lErr
    /\ UNCHANGED <<lConfig, lProvider, outsideLlm>>

\* new OpenAIProvider(...), new AnthropicProvider(...),
\* new OpenAICompatibleProvider(...)
LlmConstruct ==
    /\ lPc = "selected"
    /\ LET made == NewProvider(lClass, lArg)
       IN  IF made = Nothing
           THEN lPc' = "failed" /\ lErr' = Some(ErrKeyRequired(lClass)) /\ UNCHANGED lProvider
           ELSE lPc' = "resolved" /\ lProvider' = made /\ UNCHANGED lErr
    /\ UNCHANGED <<lConfig, lClass, lArg, outsideLlm>>

LlmNext == LlmSelect \/ LlmConstruct

SpecLlm == LlmInit /\ [][LlmNext]_vars

(***************************************************************************)
(* Properties of resolveLLMProvider                                        *)
(***************************************************************************)
LlmDone == lPc \in {"resolved", "failed"}

\* the config names a provider itself
ExplicitProvider == lConfig.isObject /\ lConfig.provider # "undefined"

\* the key and the url the config carries; a string config is a key when it
\* begins with sk- and a url when it begins with http
ConfigKey ==
    IF lConfig.isObject THEN OrElse(lConfig.apiKey, <<>>)
    ELSE IF Begins(lConfig.text, kSk) THEN lConfig.text ELSE <<>>
ConfigUrl ==
    IF lConfig.isObject THEN OrElse(lConfig.url, <<>>)
    ELSE IF Begins(lConfig.text, kHttp) THEN lConfig.text ELSE <<>>

\* the provider the priority list names for the config, "none" where it
\* names none
RuledProvider ==
    IF ExplicitProvider THEN lConfig.provider
    ELSE IF Begins(ConfigKey, kSkAnt) THEN "anthropic"
    ELSE IF Begins(ConfigKey, kSk) THEN "openai"
    ELSE IF ConfigUrl # <<>> /\ ConfigKey = <<>> THEN "openai-compatible"
    ELSE IF ConfigUrl # <<>> /\ ConfigKey # <<>> THEN "openai"
    ELSE "none"

\* C21: the provider class is chosen by the priority list: an explicit
\* provider; else a key starting with sk-ant- gives Anthropic, ahead of sk-,
\* which gives OpenAI; else a url without key gives the OpenAI-compatible
\* provider; else a url with a key gives OpenAI; with none of these the call
\* throws a ChatDBError and constructs nothing.  The only other failure is
\* the chosen constructor refusing a missing key.  A key starting with
\* sk-ant- without explicit provider never gives OpenAI.
C21_Priority ==
    /\ ~LlmDone => lProvider = Nothing
    /\ LlmDone =>
          IF RuledProvider = "none"
          THEN /\ lPc = "failed" /\ lProvider = Nothing /\ lClass = ""
               /\ Val(lErr).type = "ChatDBError"
          ELSE /\ lClass = RuledProvider
               /\ \/ /\ lPc = "resolved" /\ lErr = Nothing
                     /\ Val(lProvider).name = RuledProvider
                  \/ /\ lPc = "failed" /\ lProvider = Nothing
                     /\ Val(lErr) = ErrKeyRequired(RuledProvider)
                     /\ ConfigKey = <<>>
    /\ (Begins(ConfigKey, kSkAnt) /\ ~ExplicitProvider) => lClass # "openai"

\* a config object with only an sk-ant- key resolved to Anthropic
C21_Witness ==
    /\ lConfig.isObject /\ ~ExplicitProvider /\ lConfig.url = Nothing
    /\ Begins(ConfigKey, kSkAnt)
    /\ lPc = "resolved"
    /\ Val(lProvider).name = "anthropic"

(***************************************************************************)
(* Properties of the history kept by buildMessages                         *)
(***************************************************************************)
\* the number of history messages among the messages sent
Kept == Len(Val(bOut).messages) - 2

\* the estimated cost of history message i as it is sent
CostOf(i) == estimateTokens(HistoryContent(bHistory[i]))

\* the summed cost of the newest k history messages
RECURSIVE SuffixCost(_)
SuffixCost(k) == IF k = 0 THEN 0 ELSE CostOf(Len(bHistory) - k + 1) + SuffixCost(k - 1)

\* contextLength - systemTokens - userTokens - 256, from the messages sent
HistoryBudget ==
    bMaxTokens - estimateTokens(Val(bOut).messages[1].content)
               - estimateTokens(bMessage) - responseReserve

\* the history messages sent are the newest Kept ones, oldest first
KeptIsSuffix ==
    /\ Kept \in 0..Len(bHistory)
    /\ \A j \in 1..Kept :
          LET msg == bHistory[Len(bHistory) - Kept + j]
          IN  Val(bOut).messages[1 + j] =
                  [role |-> msg.role, content |-> HistoryContent(msg)]

\* C22: the history sent is the longest suffix of the supplied history whose
\* summed cost fits the budget contextLength - systemTokens - userTokens -
\* 256: it fits, the next older message would not, so no message older than
\* an excluded one is sent; it stands oldest first between the system message
\* and the question; nothing is sent of it when the budget is not positive.
C22_LongestSuffix ==
    bOut # Nothing =>
        /\ KeptIsSuffix
        /\ HistoryBudget <= 0 => Kept = 0
        /\ HistoryBudget > 0 =>
              /\ SuffixCost(Kept) <= HistoryBudget
              /\ Kept < Len(bHistory) => SuffixCost(Kept + 1) > HistoryBudget

\* the walk stopped at a message that did not fit although an older one
\* would have fitted in what was left
C22_Witness ==
    /\ bOut # Nothing
    /\ HistoryBudget > 0
    /\ Kept > 0
    /\ Kept + 1 < Len(bHistory)
    /\ CostOf(Len(bHistory) - Kept - 1) <= HistoryBudget - SuffixCost(Kept)

\* the supplied history alternates, starting with a user turn
AlternatingHistory ==
    \A i \in 1..Len(bHistory) :
        bHistory[i].role = (IF i % 2 = 1 THEN "user" ELSE "assistant")

\* C30: the messages sent are one system message, then a contiguous suffix
\* of the history in its original order, then the question as last message;
\* the cut falls between any two messages, not between exchanges.
C30_PerMessageTrim ==
    bOut # Nothing =>
        LET messages == Val(bOut).messages
            n        == Len(messages)
        IN  /\ n >= 2
            /\ messages[1].role = "system"
            /\ messages[n] = [role |-> "user", content |-> bMessage]
            /\ \A j \in 2..n : messages[j].role # "system"
            /\ \E k \in 0..Len(bHistory) :
                  /\ n = k + 2
                  /\ \A j \in 1..k :
                        /\ messages[1 + j].role = bHistory[Len(bHistory) - k + j].role
                        /\ messages[1 + j].content =
                               HistoryContent(bHistory[Len(bHistory) - k + j])

\* an alternating history was cut between a question and its answer: the
\* first message after the system message is an assistant turn
C30_Witness ==
    /\ bOut # Nothing
    /\ AlternatingHistory
    /\ Len(bHistory) >= 2
    /\ Len(Val(bOut).messages) > 2
    /\ Val(bOut).messages[2].role = "assistant"
    /\ bHistory[Len(bHistory) - (Len(Val(bOut).messages) - 2)].role = "user"

(***************************************************************************)
(* chatdb.ts: one query() call, cut where the source awaits.  An action is *)
(* what runs between two awaits: the outcome of the call awaited, then the *)
(* statements up to the next await, the call it makes included.            *)
(***************************************************************************)
\* what each awaited call can reject with:
\*   init()             the errors of the two resolvers
\*   db.getSchemaText   DatabaseError of getPool (no driver), else the
\*                      driver's own error: rawQuery has no catch
\*   llm.generate       the provider's errors, and those of fetch and of
\*                      res.json(), which the providers do not catch
\*   db.execute         DatabaseError of getPool and of the catch block, the
\*                      driver's own error from before the try
\* llm.getContextLength rejects in no provider: it returns a number at hand
\* or, in OpenAICompatibleProvider, catches what fetchModelInfo throws.
Rejections(call) ==
    CASE call = "init"          -> {"ChatDBError", "LLMError"}
      [] call = "getSchemaText" -> {"DatabaseError", "Error"}
      [] call = "generate"      -> {"LLMError", "ContextOverflowError", "TypeError", "SyntaxError"}
      [] call = "execute"       -> {"DatabaseError", "Error"}

\* options: schema and history, each given or not
PipeOptions == [schema : {Nothing, Some(kSales)}, history : {Nothing, Some(SuppliedHistory)}]

\* this.config of the instance
PipeConfig == [allowWrites |-> "false", maxRows |-> DefaultMaxRows]

\* result.content of the provider: no JSON, null, an object without sql, an
\* object whose sql is a number, a statement the guard rejects, a SELECT
\* with the schema prefix, a SELECT without chart type
PipeContents ==
    { NotJson(<<"n","o","p","e">>),
      JOther("null"),
      JObject(JUndefined, JStr(kBrief), JStr(kBar)),
      JObject(JNum(5), JStr(kBrief), JStr(kBar)),
      JObject(JStr(<<"D","R","O","P"," ","T","A","B","L","E"," ","t">>), JStr(kBrief), JStr(kBar)),
      JObject(JStr(kSelect1 \o <<" ","F","R","O","M"," ">> \o kSales \o <<".","t">>),
              JStr(kBrief), JStr(kBar)),
      JObject(JStr(kSelect1), JStr(kBrief), JUndefined) }

\* the locals of a call that has not run yet
NewLocals ==
    [now |-> -1, schemaText |-> Nothing, messages |-> Nothing, parsed |-> Nothing,
     safeSql |-> Nothing]

\* options?.schema ?? this.defaultSchema, options?.history ?? []
SchemaOfCall  == OrElse(pOptions.schema, kPublic)
HistoryOfCall == OrElse(pOptions.history, <<>>)

PipeInit ==
    /\ OthersIdle("pipe")
    /\ pOptions \in PipeOptions
    /\ pNow \in 0..MaxClock
    /\ pCached \in {Nothing, Some([text |-> DbSchemaText(0), time |-> 0])}
    /\ pLocals = NewLocals
    /\ pPc = "called"
    /\ pLog = <<>>
    /\ pErr = Nothing
    /\ pResult = Nothing

\* the call awaited rejects and query() rejects with that error
PipeThrow(step, type) ==
    /\ pPc' = "failed"
    /\ pErr' = Some([step |-> step, type |-> type])

\* Date.now() advances while the call awaits
PipeTick ==
    /\ pPc \in {"init", "cached", "getSchemaText", "contextLength", "generate", "execute"}
    /\ pNow < MaxClock
    /\ pNow' = pNow + 1
    /\ UNCHANGED <<pOptions, pCached, pLocals, pPc, pLog, pErr, pResult, outsidePipe>>

\* query() is called: this.init() is called and awaited
PipeCall ==
    /\ pPc = "called"
    /\ pPc' = "init"
    /\ UNCHANGED <<pOptions, pCached, pNow, pLocals, pLog, pErr, pResult, outsidePipe>>

\* await this.init() throws
PipeInitRejected(type) ==
    /\ pPc = "init"
    /\ PipeThrow("init", type)
    /\ UNCHANGED <<pOptions, pCached, pNow, pLocals, pLog, pResult, outsidePipe>>

\* await this.init() returns; step 1, getCachedSchema up to its await:
\* Date.now(), the cache test, then the cached text or db.getSchemaText
PipeInitResolved ==
    /\ pPc = "init"
    /\ pLog' = Append(pLog, "schema")
    /\ IF CacheHit(pCached, pNow)
       THEN /\ pPc' = "cached"
            /\ pLocals' = [pLocals EXCEPT !.now = pNow, !.schemaText = Some(Val(pCached).text)]
       ELSE /\ pPc' = "getSchemaText"
            /\ pLocals' = [pLocals EXCEPT !.now = pNow]
    /\ UNCHANGED <<pOptions, pCached, pNow, pErr, pResult, outsidePipe>>

\* await this.db.getSchemaText(schemaName) throws
PipeSchemaTextRejected(type) ==
    /\ pPc = "getSchemaText"
    /\ PipeThrow("schema", type)
    /\ UNCHANGED <<pOptions, pCached, pNow, pLocals, pLog, pResult, outsidePipe>>

\* db.getSchemaText returns: the text is stored under the time read before
\* the await, and getCachedSchema returns it
PipeSchemaTextResolved(text) ==
    /\ pPc = "getSchemaText"
    /\ pCached' = Some([text |-> text, time |-> pLocals.now])
    /\ pLocals' = [pLocals EXCEPT !.schemaText = Some(text)]
    /\ pPc' = "cached"
    /\ UNCHANGED <<pOptions, pNow, pLog, pErr, pResult, outsidePipe>>

\* await this.getCachedSchema(schema) returns; step 2:
\* this.llm.getContextLength() is called
PipeSchemaResolved ==
    /\ pPc = "cached"
    /\ pLog' = Append(pLog, "contextLength")
    /\ pPc' = "contextLength"
    /\ UNCHANGED <<pOptions, pCached, pNow, pLocals, pErr, pResult, outsidePipe>>

\* await this.llm.getContextLength() returns; steps 3 and 4: buildMessages,
\* then this.llm.generate is called with the messages
PipeContextLengthResolved(contextLength) ==
    /\ pPc = "contextLength"
    /\ pLocals' = [pLocals EXCEPT !.messages =
                      Some(buildMessages("postgresql", Val(pLocals.schemaText), HistoryOfCall,
                                         Question(1), contextLength, SchemaOfCall).messages)]
    /\ pLog' = Append(pLog, "generate")
    /\ pPc' = "generate"
    /\ UNCHANGED <<pOptions, pCached, pNow, pErr, pResult, outsidePipe>>

\* await this.llm.generate(...) throws, and the provider is called again
PipeGenerateRejected_Retry(type) ==
    /\ pPc = "generate"
    /\ IF type = "LLMError" /\ Len(pLog) < 4
       THEN /\ pLog' = Append(pLog, "generate")
            /\ UNCHANGED <<pPc, pErr>>
       ELSE /\ PipeThrow("generate", type)
            /\ UNCHANGED pLog
    /\ UNCHANGED <<pOptions, pCached, pNow, pLocals, pResult, outsidePipe>>

\* await this.llm.generate(...) throws
PipeGenerateRejected(type) ==
    /\ pPc = "generate"
    /\ PipeThrow("generate", type)
    /\ UNCHANGED <<pOptions, pCached, pNow, pLocals, pLog, pResult, outsidePipe>>

\* steps 5 and 6 on result.content: JSON.parse, the check of sql and
\* explanation, the clean-up; the error thrown, or the cleaned SQL
ParseOutcome(content, schema) ==
    IF ~content.json THEN [ok |-> FALSE, err |-> ErrParse(content.text)]
    ELSE IF content.shape = "null" THEN [ok |-> FALSE, err |-> ErrTypeError]
    ELSE IF ~Truthy(content.sql) \/ ~Truthy(content.explanation)
    THEN [ok |-> FALSE, err |-> ErrMissing]
    ELSE IF content.sql.t # "string" THEN [ok |-> FALSE, err |-> ErrTypeError]
    ELSE [ok |-> TRUE, sql |-> CleanSQL(content.sql.s, schema)]

\* steps 7 to 9 on the cleaned SQL: ValidationError when validateSQL does
\* not find it valid, else ensureLimit and the call of this.db.execute
PipeGuarded(content, sql, validation) ==
    IF ~validation.valid
    THEN /\ pLog' = pLog \o <<"parse", "guard">>
         /\ PipeThrow("guard", ValidationError(validation.error, sql).type)
         /\ pLocals' = [pLocals EXCEPT !.parsed = Some(content)]
    ELSE /\ pLog' = pLog \o <<"parse", "guard", "execute">>
         /\ pPc' = "execute"
         /\ pLocals' = [pLocals EXCEPT !.parsed = Some(content),
                                       !.safeSql = Some(ensureLimit(sql, PipeConfig.maxRows))]
         /\ UNCHANGED pErr

\* steps 5 and 6 have thrown, or step 7 is reached
PipeParsed(content, parse) ==
    IF ~parse.ok
    THEN /\ pLog' = Append(pLog, "parse")
         /\ PipeThrow("parse", parse.err.type)
         /\ pLocals' = [pLocals EXCEPT !.parsed = Some(content)]
    ELSE PipeGuarded(content, parse.sql, validateSQL(parse.sql, PipeConfig.allowWrites))

\* await this.llm.generate(...) returns; steps 5 to 9 run without an await:
\* parse and clean up, validateSQL, ensureLimit, then this.db.execute is
\* called with safeSql
PipeGenerated(content) ==
    /\ pPc = "generate"
    /\ PipeParsed(content, ParseOutcome(content, SchemaOfCall))
    /\ UNCHANGED <<pOptions, pCached, pNow, pResult, outsidePipe>>

\* await this.db.execute(safeSql, schema) throws
PipeExecuteRejected(type) ==
    /\ pPc = "execute"
    /\ PipeThrow("execute", type)
    /\ UNCHANGED <<pOptions, pCached, pNow, pLocals, pLog, pResult, outsidePipe>>

\* await this.db.execute(safeSql, schema) returns: the result is returned
PipeExecuteResolved ==
    /\ pPc = "execute"
    /\ pResult' = Some([sql |-> Val(pLocals.safeSql),
                        explanation |-> Val(pLocals.parsed).explanation,
                        chartType |-> Coalesce(Val(pLocals.parsed).chartType, JStr(kTable))])
    /\ pPc' = "returned"
    /\ UNCHANGED <<pOptions, pCached, pNow, pLocals, pLog, pErr, outsidePipe>>

PipeNext ==
    \/ PipeTick
    \/ PipeCall
    \/ \E type \in Rejections("init") : PipeInitRejected(type)
    \/ PipeInitResolved
    \/ \E type \in Rejections("getSchemaText") : PipeSchemaTextRejected(type)
    \/ \E v \in {0, 1} : PipeSchemaTextResolved(DbSchemaText(v))
    \/ PipeSchemaResolved
    \/ PipeContextLengthResolved(AskContextLength)
    \/ \E type \in Rejections("generate") : PipeGenerateRejected(type)
    \/ \E content \in PipeContents : PipeGenerated(content)
    \/ \E type \in Rejections("execute") : PipeExecuteRejected(type)
    \/ PipeExecuteResolved

SpecPipe == PipeInit /\ [][PipeNext]_vars

(***************************************************************************)
(* Properties of the order of the steps                                    *)
(***************************************************************************)
\* the order the steps are to run in
StepOrder == <<"schema", "contextLength", "generate", "parse", "guard", "execute">>

\* C23: the steps invoked are the first steps of schema lookup,
\* getContextLength, generate, parse, guard, execute, each once and in that
\* order; a call that failed failed at the last step it invoked (or in
\* init, before any), a call that returned invoked them all, and once the
\* call is over no step is invoked any more.
C23_StepsInOrder ==
    /\ [](/\ Len(pLog) <= Len(StepOrder)
          /\ pLog = SubSeq(StepOrder, 1, Len(pLog))
          /\ pPc = "returned" => pLog = StepOrder /\ pResult # Nothing /\ pErr = Nothing
          /\ pPc = "failed" =>
                /\ pErr # Nothing /\ pResult = Nothing
                /\ Val(pErr).step = (IF pLog = <<>> THEN "init" ELSE pLog[Len(pLog)]))
    /\ [][(pPc \in {"returned", "failed"}) => (pLog' = pLog)]_vars

\* the schema was fetched while the clock advanced, and the guard rejected
\* the SQL after the five steps before it; execute never ran
C23_Witness ==
    /\ pPc = "failed"
    /\ Val(pErr).step = "guard"
    /\ Val(pErr).type = "ValidationError"
    /\ pLog = SubSeq(StepOrder, 1, 5)
    /\ pCached # Nothing /\ Val(pCached).time = pLocals.now /\ pLocals.now < pNow

(***************************************************************************)
(* MySQLAdapter.execute on an open pool.  pool.query(text) runs the text   *)
(* on one of the pool's connections and gives the connection back; each    *)
(* connection is a session with a selected database of its own.            *)
(***************************************************************************)
MaxConns == 2
MaxExecs == 2

ConnIds == 1..MaxConns
ExecIds == 1..MaxExecs

\* the database of the connection string, selected when a connection opens
kShop == <<"s", "h", "o", "p">>

\* the schema argument of execute: absent, or a database name
ExecSchemas == {Nothing, Some(kSales), Some(kPublic)}

\* schema.replace(/[^a-zA-Z0-9_\-]/g, "")
SafeName(schema) == SelectSeq(schema, LAMBDA ch : IsWordChar(ch) \/ ch = "-")

NewExec == [pc |-> "idle", schema |-> Nothing, under |-> Nothing, err |-> Nothing]

\* new DatabaseError(err.message, this.dialect)
DatabaseErrorOf(dialect) == [type |-> "DatabaseError", dialect |-> dialect]

MysqlInit ==
    /\ OthersIdle("mysql")
    /\ mConns = [k \in ConnIds |-> kShop]
    /\ mCalls = [c \in ExecIds |-> NewExec]

\* execute(sql, schema) up to the first pool.query: with a schema the USE
\* is next, without one the statement
MysqlCall(c, schema) ==
    /\ mCalls[c].pc = "idle"
    /\ mCalls' = [mCalls EXCEPT ![c].schema = schema,
                                ![c].pc = IF Given(schema) THEN "use" ELSE "query"]
    /\ UNCHANGED <<mConns, outsideMysql>>

\* await pool.query(`USE ...`) on connection k
MysqlUse(c, k) ==
    /\ mCalls[c].pc = "use"
    /\ mConns' = [mConns EXCEPT ![k] = SafeName(Val(mCalls[c].schema))]
    /\ mCalls' = [mCalls EXCEPT ![c].pc = "query"]
    /\ UNCHANGED outsideMysql

\* await pool.query(sql) on connection k, and the return
MysqlQuery(c, k) ==
    /\ mCalls[c].pc = "query"
    /\ mCalls' = [mCalls EXCEPT ![c].pc = "done", ![c].under = Some(mConns[k])]
    /\ UNCHANGED <<mConns, outsideMysql>>

\* either pool.query rejects: the catch throws a DatabaseError
MysqlFail(c) ==
    /\ mCalls[c].pc \in {"use", "query"}
    /\ mCalls' = [mCalls EXCEPT ![c].pc = "failed",
                                ![c].err = Some(DatabaseErrorOf("mysql"))]
    /\ UNCHANGED <<mConns, outsideMysql>>

MysqlNext ==
    \/ \E c \in ExecIds, schema \in ExecSchemas : MysqlCall(c, schema)
    \/ \E c \in ExecIds, k \in ConnIds : MysqlUse(c, k)
    \/ \E c \in ExecIds, k \in ConnIds : MysqlQuery(c, k)
    \/ \E c \in ExecIds : MysqlFail(c)

SpecMysql == MysqlInit /\ [][MysqlNext]_vars

(***************************************************************************)
(* Properties of the schema a statement runs under                         *)
(***************************************************************************)
\* C24: the statement of an execute(sql, schema) call runs in a session
\* whose selected schema is the one the call asked for, under every
\* interleaving of execute calls on one adapter.
C24_OwnSchema ==
    \A c \in ExecIds :
        (mCalls[c].pc = "done" /\ Given(mCalls[c].schema)) =>
            mCalls[c].under = Some(SafeName(Val(mCalls[c].schema)))

(***************************************************************************)
(* db/postgres.ts: PostgresAdapter.getPool, execute, rawQuery and close,   *)
(* cut at their awaits, for calls that overlap                             *)
(***************************************************************************)
MaxAdapterCalls == 3

AdapterCallIds == 1..MaxAdapterCalls

\* rawQuery stands for the introspection calls too: getColumns, listSchemas
\* and listTables are one rawQuery each, getSchemaText is getColumns
AdapterOps == {"execute", "rawQuery"}

NewAdapterCall ==
    [op |-> "none", pc |-> "idle", pool |-> 0, acquired |-> 0, released |-> 0,
     err |-> Nothing]

\* what the driver throws, as it is
DriverError == [type |-> "Error", dialect |-> ""]

\* finally { client.release() } left out on the failure path
Finally_OnlyOnSuccess(call, ok) ==
    IF ok THEN [call EXCEPT !.released = @ + 1] ELSE call

\* finally { client.release() }
Finally(call, ok) == [call EXCEPT !.released = @ + 1]

PgInit ==
    /\ OthersIdle("pg")
    /\ xPool = 0
    /\ xPools = <<>>
    /\ xCalls = [c \in AdapterCallIds |-> NewAdapterCall]

\* execute / rawQuery up to the first await of getPool: the pool at hand, or
\* the import of the driver
PgUse(c, op) ==
    /\ xCalls[c].pc = "idle"
    /\ xCalls' = [xCalls EXCEPT ![c].op = op,
                                ![c].pool = xPool,
                                ![c].pc = IF xPool = 0 THEN "importing" ELSE "pooled"]
    /\ UNCHANGED <<xPool, xPools, outsidePg>>

\* getPool after the import: this.pool = new Pool(...)
PgImported(c) ==
    /\ xCalls[c].pc = "importing"
    /\ xPools' = Append(xPools, [ends |-> 0])
    /\ xPool' = Len(xPools) + 1
    /\ xCalls' = [xCalls EXCEPT ![c].pool = Len(xPools) + 1, ![c].pc = "pooled"]
    /\ UNCHANGED outsidePg

\* getPool: the import rejects, DatabaseError("PostgreSQL driver not found")
PgImportFailed(c) ==
    /\ xCalls[c].pc = "importing"
    /\ xCalls' = [xCalls EXCEPT ![c].pc = "failed",
                                ![c].err = Some(DatabaseErrorOf("postgresql"))]
    /\ UNCHANGED <<xPool, xPools, outsidePg>>

\* execute: await pool.connect() resolves with a client
PgConnected(c) ==
    /\ xCalls[c].pc = "pooled" /\ xCalls[c].op = "execute"
    /\ xPools[xCalls[c].pool].ends = 0
    /\ xCalls' = [xCalls EXCEPT ![c].acquired = @ + 1, ![c].pc = "connected"]
    /\ UNCHANGED <<xPool, xPools, outsidePg>>

\* execute: await pool.connect() rejects, outside the try
PgConnectFailed(c) ==
    /\ xCalls[c].pc = "pooled" /\ xCalls[c].op = "execute"
    /\ xCalls' = [xCalls EXCEPT ![c].pc = "failed", ![c].err = Some(DriverError)]
    /\ UNCHANGED <<xPool, xPools, outsidePg>>

\* execute: await client.query(`SET search_path ...`) resolves
PgPathSet(c) ==
    /\ xCalls[c].pc = "connected"
    /\ xCalls' = [xCalls EXCEPT ![c].pc = "pathSet"]
    /\ UNCHANGED <<xPool, xPools, outsidePg>>

\* execute: await client.query(sql) resolves; finally; return
PgStatementDone(c) ==
    /\ xCalls[c].pc = "pathSet"
    /\ xCalls' = [xCalls EXCEPT ![c] = [Finally(@, TRUE) EXCEPT !.pc = "done"]]
    /\ UNCHANGED <<xPool, xPools, outsidePg>>

\* execute: either client.query rejects; catch, finally; DatabaseError
PgQueryFailed(c) ==
    /\ xCalls[c].pc \in {"connected", "pathSet"}
    /\ xCalls' = [xCalls EXCEPT ![c] =
                      [Finally(@, FALSE) EXCEPT !.pc = "failed",
                                                !.err = Some(DatabaseErrorOf("postgresql"))]]
    /\ UNCHANGED <<xPool, xPools, outsidePg>>

\* rawQuery: await pool.query(sql, params) resolves
PgRawDone(c) ==
    /\ xCalls[c].pc = "pooled" /\ xCalls[c].op = "rawQuery"
    /\ xPools[xCalls[c].pool].ends = 0
    /\ xCalls' = [xCalls EXCEPT ![c].pc = "done"]
    /\ UNCHANGED <<xPool, xPools, outsidePg>>

\* rawQuery: await pool.query(sql, params) rejects
PgRawFailed(c) ==
    /\ xCalls[c].pc = "pooled" /\ xCalls[c].op = "rawQuery"
    /\ xCalls' = [xCalls EXCEPT ![c].pc = "failed", ![c].err = Some(DriverError)]
    /\ UNCHANGED <<xPool, xPools, outsidePg>>

\* close up to its await: nothing without a pool, else this.pool.end()
PgClose(c) ==
    /\ xCalls[c].pc = "idle"
    /\ IF xPool = 0
       THEN /\ xCalls' = [xCalls EXCEPT ![c].op = "close", ![c].pc = "done"]
            /\ UNCHANGED xPools
       ELSE /\ xCalls' = [xCalls EXCEPT ![c].op = "close", ![c].pool = xPool,
                                        ![c].pc = IF xPools[xPool].ends = 0
                                                  THEN "ending" ELSE "endingAgain"]
            /\ xPools' = [xPools EXCEPT ![xPool].ends = @ + 1]
    /\ UNCHANGED <<xPool, outsidePg>>

\* close: await this.pool.end() resolves; this.pool = null
PgEnded(c) ==
    /\ xCalls[c].pc = "ending"
    /\ xPool' = 0
    /\ xCalls' = [xCalls EXCEPT ![c].pc = "done"]
    /\ UNCHANGED <<xPools, outsidePg>>

\* close: end() was called on a pool that had been ended already and rejects
PgEndFailed(c) ==
    /\ xCalls[c].pc = "endingAgain"
    /\ xCalls' = [xCalls EXCEPT ![c].pc = "failed", ![c].err = Some(DriverError)]
    /\ UNCHANGED <<xPool, xPools, outsidePg>>

PgNext ==
    \/ \E c \in AdapterCallIds, op \in AdapterOps : PgUse(c, op)
    \/ \E c \in AdapterCallIds : PgImported(c)
    \/ \E c \in AdapterCallIds : PgImportFailed(c)
    \/ \E c \in AdapterCallIds : PgConnected(c)
    \/ \E c \in AdapterCallIds : PgConnectFailed(c)
    \/ \E c \in AdapterCallIds : PgPathSet(c)
    \/ \E c \in AdapterCallIds : PgStatementDone(c)
    \/ \E c \in AdapterCallIds : PgQueryFailed(c)
    \/ \E c \in AdapterCallIds : PgRawDone(c)
    \/ \E c \in AdapterCallIds : PgRawFailed(c)
    \/ \E c \in AdapterCallIds : PgClose(c)
    \/ \E c \in AdapterCallIds : PgEnded(c)
    \/ \E c \in AdapterCallIds : PgEndFailed(c)

SpecPg == PgInit /\ [][PgNext]_vars

(***************************************************************************)
(* Properties of the adapter's pool, clients and errors                    *)
(***************************************************************************)
\* C25: the adapter creates one pool per open period, shared by concurrent
\* first uses, and close() ends every pool it created: a pool that was not
\* ended is the adapter's current pool; close() without a pool ends none and
\* does not fail.
C25_OnePool ==
    /\ \A i \in 1..Len(xPools) : xPools[i].ends = 0 => xPool = i
    /\ \A c \in AdapterCallIds :
          (xCalls[c].op = "close" /\ xCalls[c].pool = 0) =>
              xCalls[c].pc = "done" /\ xCalls[c].err = Nothing

\* the call is over
Settled(c) == xCalls[c].pc \in {"done", "failed"}

\* C26: every client an execute call acquired is released exactly once,
\* whether SET search_path and the statement succeed or throw: a call holds
\* at most one client, releases none it does not hold, and holds none once
\* it settled.
C26_ReleasedOnce ==
    \A c \in AdapterCallIds :
        /\ xCalls[c].released <= xCalls[c].acquired
        /\ xCalls[c].acquired <= 1
        /\ Settled(c) => xCalls[c].released = xCalls[c].acquired
        /\ xCalls[c].pc \in {"connected", "pathSet"} =>
              xCalls[c].acquired = 1 /\ xCalls[c].released = 0

\* an execute whose query threw, and one that returned, both gave their
\* client back
C26_Witness ==
    \E c, d \in AdapterCallIds :
        /\ xCalls[c].op = "execute" /\ xCalls[c].pc = "failed"
        /\ xCalls[c].acquired = 1 /\ xCalls[c].released = 1
        /\ xCalls[d].op = "execute" /\ xCalls[d].pc = "done"
        /\ xCalls[d].acquired = 1 /\ xCalls[d].released = 1

\* C27: every failure of an adapter operation reaches the caller as a
\* DatabaseError carrying the dialect.
C27_Wrapped ==
    \A c \in AdapterCallIds :
        (xCalls[c].pc = "failed" /\ xCalls[c].op \in {"execute", "rawQuery"}) =>
            xCalls[c].err = Some(DatabaseErrorOf("postgresql"))

(***************************************************************************)
(* llm/openai-compatible.ts: getContextLength, getModelId, generate and    *)
(* fetchModelInfo, cut at their awaits, for calls that overlap             *)
(***************************************************************************)
MaxInfoCalls == 2

InfoCallIds == 1..MaxInfoCalls

InfoOps == {"getContextLength", "getModelId"}

DefaultContextLength == 4096

kUnknown ==
    <<"u","n","k","n","o","w","n">>
kModelName == <<"m">>

\* what /v1/models gives: no answer, a non-OK answer, or a model object
\* whose fields are present or not (-1 and Nothing for absent)
ListingAnswer(kind, id, a, b, c) ==
    [kind |-> kind, id |-> id, context_length |-> a, max_model_len |-> b,
     context_window |-> c]
ListingAnswers ==
    { ListingAnswer("unreachable", Nothing, -1, -1, -1),
      ListingAnswer("notOk", Nothing, -1, -1, -1),
      ListingAnswer("ok", Nothing, -1, -1, -1),
      ListingAnswer("ok", Some(kModelName), 8192, 2048, -1),
      ListingAnswer("ok", Some(kModelName), -1, 2048, 1024),
      ListingAnswer("ok", Some(kModelName), -1, -1, 1024),
      ListingAnswer("ok", Some(kModelName), -1, -1, -1),
      ListingAnswer("ok", Some(<<>>), 8192, -1, -1),
      ListingAnswer("ok", Some(kModelName), 0, 2048, -1) }

\* model?.context_length ?? model?.max_model_len ?? model?.context_window ?? 4096
ContextOf(answer) ==
    IF answer.context_length # -1 THEN answer.context_length
    ELSE IF answer.max_model_len # -1 THEN answer.max_model_len
    ELSE IF answer.context_window # -1 THEN answer.context_window
    ELSE DefaultContextLength

\* this.cachedContextLength && this.cachedModelId
HasModelInfo(context, model) == context \notin {-1, 0} /\ Given(model)

NewInfoCall ==
    [op |-> "none", pc |-> "idle", context |-> -1, model |-> Nothing, err |-> Nothing]

InfoInit ==
    /\ OthersIdle("info")
    /\ oContext = -1
    /\ oModel = Nothing
    /\ oListings = 0
    /\ oCalls = [c \in InfoCallIds |-> NewInfoCall]

\* fetchModelInfo up to its await: nothing to do with the info at hand, else
\* the request to /v1/models
InfoFetchStart(c, op) ==
    IF HasModelInfo(oContext, oModel)
    THEN /\ oCalls' = [oCalls EXCEPT ![c].op = op, ![c].pc = "ready"]
         /\ UNCHANGED oListings
    ELSE /\ oCalls' = [oCalls EXCEPT ![c].op = op, ![c].pc = "listing"]
         /\ oListings' = oListings + 1

\* getContextLength() / getModelId() called
InfoCall(c, op) ==
    /\ oCalls[c].pc = "idle"
    /\ InfoFetchStart(c, op)
    /\ UNCHANGED <<oContext, oModel, outsideInfo>>

\* generate() called: the request to /v1/chat/completions is sent
InfoGenerate(c) ==
    /\ oCalls[c].pc = "idle"
    /\ oCalls' = [oCalls EXCEPT ![c].op = "generate", ![c].pc = "completing"]
    /\ UNCHANGED <<oContext, oModel, oListings, outsideInfo>>

\* generate: the completion arrived with content; model: await this.getModelId()
InfoCompleted(c) ==
    /\ oCalls[c].pc = "completing"
    /\ InfoFetchStart(c, "generate")
    /\ UNCHANGED <<oContext, oModel, outsideInfo>>

\* what generate rejects with: the TypeError of a fetch that got no answer,
\* ContextOverflowError for a 400 answer about the context, LLMError for any
\* other answer that is not OK and for an answer without content, the
\* SyntaxError of res.json() on a body that is not JSON
CompletionErrors == {"TypeError", "ContextOverflowError", "LLMError", "SyntaxError"}

\* the provider tag of an error: that of LLMError and of its subclass
ProviderOf(type) ==
    IF type \in {"LLMError", "ContextOverflowError"} THEN Some("openai-compatible") ELSE Nothing

\* generate rejects
InfoCompletionFailed(c, type) ==
    /\ oCalls[c].pc = "completing"
    /\ oCalls' = [oCalls EXCEPT ![c].pc = "failed",
                                ![c].err = Some([type |-> type,
                                                 provider |-> ProviderOf(type)])]
    /\ UNCHANGED <<oContext, oModel, oListings, outsideInfo>>

\* fetchModelInfo after its await: the model's fields, or 4096 and "unknown"
InfoListed(c, answer) ==
    /\ oCalls[c].pc = "listing"
    /\ IF answer.kind = "ok"
       THEN /\ oModel' = Some(OrElse(answer.id, kUnknown))
            /\ oContext' = ContextOf(answer)
       ELSE /\ oContext' = DefaultContextLength
            /\ oModel' = Some(kUnknown)
    /\ oCalls' = [oCalls EXCEPT ![c].pc = "ready"]
    /\ UNCHANGED <<oListings, outsideInfo>>

\* return this.cachedContextLength / this.cachedModelId
InfoReturn(c) ==
    /\ oCalls[c].pc = "ready"
    /\ oCalls' = [oCalls EXCEPT ![c].pc = "done",
                                ![c].context = IF oCalls[c].op = "getContextLength"
                                               THEN oContext ELSE -1,
                                ![c].model = IF oCalls[c].op = "getContextLength"
                                             THEN Nothing ELSE oModel]
    /\ UNCHANGED <<oContext, oModel, oListings, outsideInfo>>

InfoNext ==
    \/ \E c \in InfoCallIds, op \in InfoOps : InfoCall(c, op)
    \/ \E c \in InfoCallIds : InfoGenerate(c)
    \/ \E c \in InfoCallIds : InfoCompleted(c)
    \/ \E c \in InfoCallIds, type \in CompletionErrors : InfoCompletionFailed(c, type)
    \/ \E c \in InfoCallIds, answer \in ListingAnswers : InfoListed(c, answer)
    \/ \E c \in InfoCallIds : InfoReturn(c)

SpecInfo == InfoInit /\ [][InfoNext]_vars

(***************************************************************************)
(* Properties of the model listing                                         *)
(***************************************************************************)
\* C28: over any number of getContextLength, getModelId and generate calls
\* on one provider, overlapping or not, /v1/models is asked at most once.
C28_ListedOnce == oListings <= 1

=============================================================================
